---- MODULE Spec2Model ----
(***************************************************************************)
(* State machine of mpv's Wayland video-output backend                     *)
(* (video/out/wayland_common.c) and of the dmabuf-wayland driver           *)
(* (video/out/vo_dmabuf_wayland.c).                                        *)
(*                                                                         *)
(* wl       struct vo_wayland_state                                        *)
(* vo_opts  the fields of struct mp_vo_opts the backend reads and writes   *)
(* opts     struct wayland_opts                                            *)
(* comp     what the compositor holds for this client: the frame callbacks *)
(*          it was asked for and has not fired yet                         *)
(* p        struct priv of the dmabuf-wayland driver                       *)
(* ra       the native resources of the rendering abstraction (VADisplay)  *)
(* pc       where the VO thread is: "idle" between calls, "wait_frame"     *)
(*          while vo_wayland_wait_frame polls and dispatches events,       *)
(*          "crashed" once a request was issued on a NULL object           *)
(* last     the operation the last step performed (history only)           *)
(* obs      history counters used to state the scenarios (history only)    *)
(* sys      what lies outside the backend: the wl_data_offer objects and   *)
(*          the drag the compositor runs, the pipes of dropped payloads,   *)
(*          whether the connection to the compositor has failed, the bytes *)
(*          in the wakeup pipe, and the close requests the player's input  *)
(*          layer was given                                                *)
(***************************************************************************)
EXTENDS Integers, Sequences, FiniteSets, TLC

VARIABLES wl, vo_opts, opts, comp, p, ra, pc, last, obs, sys

vars == <<wl, vo_opts, opts, comp, p, ra, pc, last, obs, sys>>

----------------------------------------------------------------------------
(* Bounds of the model *)

\* cap of the history counter of consecutive missed frame waits
MaxStreak == 4

\* largest width and height of a window, an output or a configure event
MaxDim == 2

\* largest pixel position of a pointer or touch event, which is also the
\* largest window size such an event finds
MaxPos == 3

\* largest edge margin (wayland-edge-pixels-pointer, -touch)
MaxEdge == 2

\* number of keymaps the compositor sends that compile
MaxKeymaps == 2

\* number of outputs the compositor announces
MaxOutputs == 3

\* number of format tables the compositor sends
MaxMaps == 2

\* largest coordinate of an output
MaxCoord == 3

\* highest version a global is advertised in
MaxVer == 5

\* number of globals announced in one run of the registry
MaxGlobals == 2

\* largest width of a configure event in the aspect-ratio arithmetic
MaxAspect == 4

\* number of hardware surfaces (or descriptor fds) the decoder cycles through
MaxKeys == 2

\* DRM formats are 1 .. MaxFormat, modifiers 0 .. MaxModifier
MaxFormat == 2

MaxModifier == 1

\* largest number of planes of a frame
MaxPlanes == 1

\* cap of the formats zwp_linux_dmabuf_v1 version 2 announces
MaxDrmFormats == 1

\* cap of priv.reset_count (the code counts every draw in 64 bits)
MaxResetCount == 3

\* largest number of objects (descriptors) of an exported surface
MaxObjects == 2

\* number of wl_data_offer objects the compositor introduces
MaxOffers == 2

\* largest payload of a drop, in bytes
MaxBytes == 1

\* cap of the count of the close requests given to the input layer
MaxCloseRequests == 2

\* capacity of the wakeup pipe, in bytes
MaxWakeups == 2

----------------------------------------------------------------------------
(* Protocol requests on the frame callback object *)

wl_callback_destroy(c) == [c EXCEPT !.frame_callbacks = @ - 1]

wl_surface_frame(c) == [c EXCEPT !.frame_callbacks = @ + 1]

----------------------------------------------------------------------------
(* Frame pacing: wayland_common.c *)

\* frame_callback(): the listener of the one-shot frame callback
frame_callback_wl(w) ==
    [w EXCEPT !.feedback = IF w.presentation THEN TRUE ELSE @,
              !.frame_wait = FALSE,
              !.hidden = FALSE]

\* variant: the listener does not destroy the callback that fired
frame_callback_comp_keep(c) == wl_surface_frame(c)

frame_callback_comp(c) == wl_surface_frame(wl_callback_destroy(c))

\* vo_wayland_check_visible(): the value it returns
check_visible_render(w, o) == (~w.hidden) \/ o.disable_vsync

\* vo_wayland_check_visible(): the state it leaves
check_visible_wl(w) == [w EXCEPT !.frame_wait = TRUE]

\* pres_set_clockid(): monotonic is whether the clock is CLOCK_MONOTONIC or
\* CLOCK_MONOTONIC_RAW
pres_set_clockid_wl(w, monotonic) ==
    IF monotonic THEN [w EXCEPT !.use_present = TRUE] ELSE w

\* feedback_presented(): refresh_nsec is the event's argument and
\* vsync_duration what present_update_sync_values leaves in wl->present
feedback_presented_wl(w, refresh_nsec, vsync_duration) ==
    IF ~w.use_present THEN w
    ELSE [w EXCEPT !.refresh_interval = refresh_nsec \div 1000,
                   !.vsync_duration = vsync_duration]

\* output_handle_mode() of the current output: refresh is in mHz, and
\* refresh_rate keeps it in mHz where the source keeps refresh * 0.001
output_handle_mode_wl(w, current, refresh) ==
    IF ~current THEN w ELSE [w EXCEPT !.refresh_rate = refresh]

\* variant: the output's refresh rate is preferred to the interval the
\* compositor reported
wait_frame_vblank_time_rate(w) ==
    LET v1 == IF w.use_present THEN w.vsync_duration ELSE 0
        v2 == IF v1 <= 0 /\ w.refresh_rate > 0
              THEN 1000000000 \div w.refresh_rate ELSE v1
        v3 == IF v2 <= 0 /\ w.refresh_interval > 0
              THEN w.refresh_interval ELSE v2
        v4 == IF v3 <= 0 THEN 1000000 \div 60 ELSE v3
    IN v4 + (5 * v4) \div 100

\* vo_wayland_wait_frame(): vblank_time when finish_time is computed, in
\* microseconds; 1e6 / refresh_rate is 1e9 / refresh for a rate in mHz, and
\* the conversions to int64_t truncate
wait_frame_vblank_time(w) ==
    LET v1 == IF w.use_present THEN w.vsync_duration ELSE 0
        v2 == IF v1 <= 0 /\ w.refresh_interval > 0
              THEN w.refresh_interval ELSE v1
        v3 == IF v2 <= 0 /\ w.refresh_rate > 0
              THEN 1000000000 \div w.refresh_rate ELSE v2
        v4 == IF v3 <= 0 THEN 1000000 \div 60 ELSE v3
    IN v4 + (5 * v4) \div 100

\* variant: the surface is hidden one miss later
wait_frame_end_late(w) ==
    IF w.frame_wait
    THEN IF w.timeout_count > 2
         THEN [w EXCEPT !.hidden = TRUE]
         ELSE [w EXCEPT !.timeout_count = @ + 1]
    ELSE [w EXCEPT !.timeout_count = 0]

\* variant: every miss is counted, also while hidden
wait_frame_end_count(w) ==
    IF w.frame_wait
    THEN [w EXCEPT !.hidden = w.timeout_count > 1 \/ @,
                   !.timeout_count = @ + 1]
    ELSE [w EXCEPT !.timeout_count = 0]

\* vo_wayland_wait_frame(): the bookkeeping after the poll loop
wait_frame_end(w) ==
    IF w.frame_wait
    THEN IF w.timeout_count > 1
         THEN [w EXCEPT !.hidden = TRUE]
         ELSE [w EXCEPT !.timeout_count = @ + 1]
    ELSE [w EXCEPT !.timeout_count = 0]

----------------------------------------------------------------------------
(* The event loop: wayland_common.c *)

\* poll() on the display descriptor: a negative descriptor is ignored;
\* readable is whether the compositor has sent events
poll_display(w, s, readable) ==
    IF w.display_fd = -1 THEN {}
    ELSE (IF s.display_err THEN {"POLLHUP"} ELSE {})
             \cup (IF readable THEN {"POLLIN"} ELSE {})

\* poll() on the read end of the wakeup pipe, which is polled when nfds is 2
poll_wakeup(s, nfds) ==
    IF nfds > 1 /\ s.wakeup > 0 THEN {"POLLIN"} ELSE {}

\* variant: the display descriptor stays in use after the error
vo_wayland_dispatch_events_again(w, s, nfds, readable) ==
    LET r0 == poll_display(w, s, readable)
        r1 == poll_wakeup(s, nfds)
        err == r0 \cap {"POLLERR", "POLLHUP", "POLLNVAL"} # {}
    IN [wl |-> w,
        sys |-> [s EXCEPT !.close_requests =
                              IF err /\ @ < MaxCloseRequests THEN @ + 1 ELSE @,
                          !.wakeup = IF "POLLIN" \in r1 THEN 0 ELSE @],
        timed_out |-> r0 = {} /\ r1 = {},
        woken |-> "POLLIN" \in r1]

\* vo_wayland_dispatch_events(): the poll, the handling of an error on the
\* display descriptor and the flush of the wakeup pipe; timed_out is
\* whether the poll waited until its timeout, woken whether it found the
\* wakeup pipe readable
vo_wayland_dispatch_events(w, s, nfds, readable) ==
    LET r0 == poll_display(w, s, readable)
        r1 == poll_wakeup(s, nfds)
        err == r0 \cap {"POLLERR", "POLLHUP", "POLLNVAL"} # {}
    IN [wl |-> IF err THEN [w EXCEPT !.display_fd = -1] ELSE w,
        sys |-> [s EXCEPT !.close_requests =
                              IF err /\ @ < MaxCloseRequests THEN @ + 1 ELSE @,
                          !.display_closes = IF err THEN @ + 1 ELSE @,
                          !.wakeup = IF "POLLIN" \in r1 THEN 0 ELSE @],
        timed_out |-> r0 = {} /\ r1 = {},
        woken |-> "POLLIN" \in r1]

\* variant: vo_wayland_wait_events polls the display descriptor alone
vo_wayland_wait_events_display(w, s, readable) ==
    vo_wayland_dispatch_events(w, s, 1, readable)

\* vo_wayland_wait_events(): the dispatch, reached when display_fd is not -1
vo_wayland_wait_events_fn(w, s, readable) ==
    vo_wayland_dispatch_events(w, s, 2, readable)

\* vo_wayland_wait_frame(): one turn of its loop
wait_frame_dispatch_fn(w, s, readable) ==
    vo_wayland_dispatch_events(w, s, 1, readable)

\* vo_wayland_wakeup(): a write on a full pipe fails and is ignored
vo_wayland_wakeup_fn(s) ==
    [s EXCEPT !.wakeup = IF @ < MaxWakeups THEN @ + 1 ELSE @]

----------------------------------------------------------------------------
(* Rectangles (struct mp_rect) and integer helpers *)

Rect(x0, y0, x1, y1) == [x0 |-> x0, y0 |-> y0, x1 |-> x1, y1 |-> y1]

ZeroRect == Rect(0, 0, 0, 0)

mp_rect_w(r) == r.x1 - r.x0

mp_rect_h(r) == r.y1 - r.y0

\* ceil(a / b) for a >= 0, b > 0
CeilDiv(a, b) == (a + b - 1) \div b

IsPow2(n) == n \in {1, 2, 4, 8, 16}

\* the excess ceil(reduced_width * ((double)width / reduced_width)) can have
\* over width: the quotient is rounded unless reduced_width divides width or
\* is a power of two, and the rounded product can lie just above width
FpExcess(rw, width) ==
    IF rw = 0 \/ width % rw = 0 \/ IsPow2(rw) THEN {0} ELSE {0, 1}

----------------------------------------------------------------------------
(* Window state machine: wayland_common.c *)

\* the driver is dmabuf-wayland (set_surface_scaling compares the name)
dmabuf_wayland == TRUE

keyboard_handle_enter_wl(w) == [w EXCEPT !.has_keyboard_input = TRUE]

keyboard_handle_leave_wl(w) == [w EXCEPT !.has_keyboard_input = FALSE]

handle_configure_bounds_wl(w, width, height) ==
    [w EXCEPT !.bounded_width = width, !.bounded_height = height]

\* handle_toplevel_config(): the state flags of the event
is_fullscreen(states) == "FULLSCREEN" \in states

is_maximized(states) ==
    states \cap {"MAXIMIZED", "TILED_TOP", "TILED_LEFT", "TILED_RIGHT",
                 "TILED_BOTTOM"} # {}

is_activated(states) == "ACTIVATED" \in states

\* variant: a tiled window does not count as maximized
toplevel_config_opts_tiled(o, states) ==
    [o EXCEPT !.window_minimized = IF is_activated(states) THEN FALSE ELSE @,
              !.fullscreen = is_fullscreen(states),
              !.window_maximized = "MAXIMIZED" \in states]

\* handle_toplevel_config(): the options written from the state flags
toplevel_config_opts(o, states) ==
    [o EXCEPT !.window_minimized = IF is_activated(states) THEN FALSE ELSE @,
              !.fullscreen = is_fullscreen(states),
              !.window_maximized = is_maximized(states)]

\* handle_toplevel_config(): state_change after the option comparison
toplevel_config_state_change(w, o, states) ==
    \/ w.state_change
    \/ o.fullscreen # is_fullscreen(states)
    \/ o.window_maximized # is_maximized(states)

\* variant: a deactivation does not take the focus
toplevel_config_focus_kept(w, activated) ==
    IF w.activated # activated
    THEN LET flip == ~w.focused /\ activated /\ w.has_keyboard_input
         IN [w EXCEPT !.activated = activated,
                      !.focused = IF flip THEN ~@ ELSE @,
                      !.hidden = IF activated THEN FALSE ELSE @,
                      !.pending_vo_events =
                          @ \cup (IF flip THEN {"FOCUS"} ELSE {})
                            \cup (IF activated THEN {"EXPOSE"} ELSE {})]
    ELSE w

\* variant: an activation does not give the focus
toplevel_config_focus_unfocused(w, activated) ==
    IF w.activated # activated
    THEN LET flip == w.focused /\ ~activated
         IN [w EXCEPT !.activated = activated,
                      !.focused = IF flip THEN ~@ ELSE @,
                      !.hidden = IF activated THEN FALSE ELSE @,
                      !.pending_vo_events =
                          @ \cup (IF flip THEN {"FOCUS"} ELSE {})
                            \cup (IF activated THEN {"EXPOSE"} ELSE {})]
    ELSE w

\* handle_toplevel_config(): activation and focus
toplevel_config_focus(w, activated) ==
    IF w.activated # activated
    THEN LET flip == \/ (~w.focused /\ activated /\ w.has_keyboard_input)
                     \/ (w.focused /\ ~activated)
         IN [w EXCEPT !.activated = activated,
                      !.focused = IF flip THEN ~@ ELSE @,
                      !.hidden = IF activated THEN FALSE ELSE @,
                      !.pending_vo_events =
                          @ \cup (IF flip THEN {"FOCUS"} ELSE {})
                            \cup (IF activated THEN {"EXPOSE"} ELSE {})]
    ELSE w

\* handle_toplevel_config(): the decoration mode requested again while a
\* request is outstanding ("none": no request is issued)
toplevel_config_decoration(w) == w.requested_decoration

\* handle_toplevel_config(): the resize label
toplevel_config_resize(w) ==
    [w EXCEPT !.pending_vo_events = @ \cup {"RESIZE"},
              !.toplevel_configured = TRUE]

\* variant: the size of every configure is remembered
toplevel_config_size_any(w, o, width, height, states, fp) ==
    LET windowed == ~is_fullscreen(states) /\ ~is_maximized(states)
        aspect == windowed /\ o.keepaspect
        nw == IF aspect THEN width + fp ELSE width
        nh == IF aspect /\ o.keepaspect_window
              THEN CeilDiv(w.reduced_height * width, w.reduced_width)
              ELSE height
    IN [w EXCEPT !.window_size = Rect(0, 0, nw, nh),
                 !.geometry = Rect(0, 0, nw, nh)]

\* variant: the height is rounded down
toplevel_config_size_floor(w, o, width, height, states, fp) ==
    LET windowed == ~is_fullscreen(states) /\ ~is_maximized(states)
        aspect == windowed /\ o.keepaspect
        nw == IF aspect THEN width + fp ELSE width
        nh == IF aspect /\ o.keepaspect_window
              THEN (w.reduced_height * width) \div w.reduced_width
              ELSE height
    IN [w EXCEPT !.window_size = IF windowed THEN Rect(0, 0, nw, nh) ELSE @,
                 !.geometry = Rect(0, 0, nw, nh)]

\* handle_toplevel_config(): the size applied from a non-zero configure;
\* fp is the rounding excess of the double product (see FpExcess)
toplevel_config_size(w, o, width, height, states, fp) ==
    LET windowed == ~is_fullscreen(states) /\ ~is_maximized(states)
        aspect == windowed /\ o.keepaspect
        nw == IF aspect THEN width + fp ELSE width
        nh == IF aspect /\ o.keepaspect_window
              THEN CeilDiv(w.reduced_height * width, w.reduced_width)
              ELSE height
    IN [w EXCEPT !.window_size = IF windowed THEN Rect(0, 0, nw, nh) ELSE @,
                 !.geometry = Rect(0, 0, nw, nh)]

\* variant: a configure that ends a state change or has no size keeps the
\* geometry it finds
toplevel_config_geometry_keep(w, o, old, width, height, states, fp) ==
    LET windowed == ~is_fullscreen(states) /\ ~is_maximized(states)
    IN IF w.state_change /\ windowed
       THEN toplevel_config_resize([w EXCEPT !.state_change = FALSE])
       ELSE IF width = 0 \/ height = 0
       THEN toplevel_config_resize(w)
       ELSE IF old.toplevel_width = width /\ old.toplevel_height = height
       THEN w
       ELSE LET w2 == toplevel_config_size(w, o, width, height, states, fp)
            IN IF w2.geometry = old.geometry
               THEN w2
               ELSE toplevel_config_resize(w2)

\* handle_toplevel_config(): what follows the focus handling
toplevel_config_geometry(w, o, old, width, height, states, fp) ==
    LET windowed == ~is_fullscreen(states) /\ ~is_maximized(states)
    IN IF w.state_change /\ windowed
       THEN toplevel_config_resize(
                [w EXCEPT !.geometry = w.window_size, !.state_change = FALSE])
       ELSE IF width = 0 \/ height = 0
       THEN toplevel_config_resize(
                IF windowed THEN [w EXCEPT !.geometry = w.window_size] ELSE w)
       ELSE IF old.toplevel_width = width /\ old.toplevel_height = height
       THEN w
       ELSE LET w2 == toplevel_config_size(w, o, width, height, states, fp)
            IN IF w2.geometry = old.geometry
               THEN w2
               ELSE toplevel_config_resize(w2)

\* variant: the listener applies the event whatever the geometry is
handle_toplevel_config_fn_apply(w, o, width, height, states, fp) ==
    LET w1 == [w EXCEPT !.toplevel_width = width, !.toplevel_height = height]
        o2 == toplevel_config_opts(o, states)
        w2 == [w1 EXCEPT !.state_change =
                   toplevel_config_state_change(w, o, states)]
        w3 == toplevel_config_focus(w2, is_activated(states))
    IN [wl |-> toplevel_config_geometry(w3, o2, w, width, height, states, fp),
        vo_opts |-> o2, set_mode |-> toplevel_config_decoration(w)]

\* handle_toplevel_config(): the whole listener; the result is the pair of
\* the new vo_wayland_state and the new options
handle_toplevel_config_fn(w, o, width, height, states, fp) ==
    LET w1 == [w EXCEPT !.toplevel_width = width, !.toplevel_height = height]
    IN IF mp_rect_w(w.geometry) = 0 \/ mp_rect_h(w.geometry) = 0
       THEN [wl |-> w1, vo_opts |-> o, set_mode |-> "none"]
       ELSE LET o2 == toplevel_config_opts(o, states)
                w2 == [w1 EXCEPT !.state_change =
                           toplevel_config_state_change(w, o, states)]
                w3 == toplevel_config_focus(w2, is_activated(states))
            IN [wl |-> toplevel_config_geometry(w3, o2, w, width, height,
                                                states, fp),
                vo_opts |-> o2, set_mode |-> toplevel_config_decoration(w)]

\* greatest_common_divisor(): the value it stores in wl->gcd
RECURSIVE greatest_common_divisor(_, _)
greatest_common_divisor(a, b) ==
    LET larger == IF a > b THEN a ELSE b
        smaller == IF a > b THEN b ELSE a
        remainder == larger - smaller * (larger \div smaller)
    IN IF remainder = 0 THEN smaller
       ELSE greatest_common_divisor(smaller, remainder)

\* set_geometry(): dwidth, dheight are what vo_calc_window_geometry and
\* vo_apply_window_geometry leave in vo->dwidth, vo->dheight
set_geometry(w, dwidth, dheight) ==
    LET g == greatest_common_divisor(dwidth, dheight)
    IN [w EXCEPT !.gcd = g,
                 !.reduced_width = dwidth \div g,
                 !.reduced_height = dheight \div g,
                 !.vdparams = Rect(0, 0, dwidth \div w.scaling,
                                         dheight \div w.scaling)]

\* set_surface_scaling(): out_scale is current_output->scale
set_surface_scaling(w, o, out_scale) ==
    LET old_scale == w.scaling
        scaling == IF o.hidpi_window_scale /\ ~dmabuf_wayland
                   THEN out_scale ELSE 1
    IN [w EXCEPT !.scaling = scaling,
                 !.vdparams.x1 = (@ * old_scale) \div scaling,
                 !.vdparams.y1 = (@ * old_scale) \div scaling,
                 !.window_size.x1 = (@ * old_scale) \div scaling,
                 !.window_size.y1 = (@ * old_scale) \div scaling]

set_window_bounds(w) ==
    [w EXCEPT !.window_size.x1 =
                  IF w.bounded_width # 0 /\ w.bounded_width < @
                  THEN w.bounded_width ELSE @,
              !.window_size.y1 =
                  IF w.bounded_height # 0 /\ w.bounded_height < @
                  THEN w.bounded_height ELSE @]

\* toggle_fullscreen(), toggle_maximized(): xdg_toplevel exists after init
toggle_fullscreen(w) == [w EXCEPT !.state_change = TRUE]

toggle_maximized(w) == [w EXCEPT !.state_change = TRUE]

\* find_output(): the first output of the list (no screen is asked for),
\* 0 for NULL when the list is empty
find_output(w) ==
    LET listed == {i \in 1 .. Len(w.outputs) : ~w.outputs[i].freed}
    IN IF listed = {} THEN 0
       ELSE CHOOSE i \in listed : \A j \in listed : i <= j

\* vo_wayland_reconfig()
vo_wayland_reconfig_fn(w, o, wo, dwidth, dheight) ==
    IF w.current_output = 0 /\ find_output(w) = 0 THEN w ELSE
    LET w1 == IF w.current_output = 0
              THEN LET c == [w EXCEPT !.current_output = find_output(w)]
                   IN [set_surface_scaling(c, o, 1)
                          EXCEPT !.pending_vo_events = @ \cup {"DPI"}]
              ELSE w
        w2 == set_geometry(w1, dwidth, dheight)
        w3 == [w2 EXCEPT !.window_size = w2.vdparams]
        w4 == IF wo.configure_bounds THEN set_window_bounds(w3) ELSE w3
        w5 == IF \/ (~o.fullscreen /\ ~o.window_maximized)
                 \/ mp_rect_w(w4.geometry) = 0
                 \/ mp_rect_h(w4.geometry) = 0
              THEN [w4 EXCEPT !.geometry = w4.window_size]
              ELSE w4
        w6 == IF o.fullscreen THEN toggle_fullscreen(w5) ELSE w5
        w7 == IF o.window_maximized THEN toggle_maximized(w6) ELSE w6
    IN [w7 EXCEPT !.pending_vo_events = @ \cup {"RESIZE"}]

\* vo_wayland_control(VOCTRL_CHECK_EVENTS)
control_check_events(w) ==
    IF "RESIZE" \in w.pending_vo_events
    THEN [w EXCEPT !.frame_wait = FALSE,
                   !.timeout_count = 0,
                   !.hidden = FALSE,
                   !.pending_vo_events = {}]
    ELSE [w EXCEPT !.pending_vo_events = {}]

\* vo_wayland_control(VOCTRL_VO_OPTS_CHANGED), opt == &opts->fullscreen
control_opt_fullscreen(w) == toggle_fullscreen(w)

\* vo_wayland_control(VOCTRL_VO_OPTS_CHANGED), opt == &opts->window_maximized
control_opt_maximized(w) == toggle_maximized(w)

\* vo_wayland_control(VOCTRL_VO_OPTS_CHANGED), opt == &opts->geometry etc.
control_opt_geometry(w, o, dwidth, dheight) ==
    IF w.current_output # 0
    THEN LET w1 == set_geometry(w, dwidth, dheight)
             w2 == [w1 EXCEPT !.window_size = w1.vdparams]
             w3 == IF ~o.fullscreen /\ ~o.window_maximized
                   THEN [w2 EXCEPT !.geometry = w2.window_size]
                   ELSE w2
         IN [w3 EXCEPT !.pending_vo_events = @ \cup {"RESIZE"}]
    ELSE w

\* registry_handle_add(): the output as it is put at the head of
\* output_list; outputs[i] is the i-th output allocated, newest first, and
\* current_output its position, 0 for NULL; freed says that remove_output
\* took the output off the list and freed it, a freed output keeps the
\* contents the memory had when it was freed
NewOutput ==
    [scale |-> 1, geometry |-> ZeroRect, has_surface |-> FALSE,
     freed |-> FALSE]

\* registry_handle_remove() and remove_output(): o is the output with the
\* id of the event; current_output is left as it is
registry_handle_remove_wl(w, o) ==
    IF w.outputs[o].freed THEN w
    ELSE [w EXCEPT !.outputs[o].freed = TRUE,
                   !.output_list = @ - 1]

\* the calls that read a field of *wl->current_output when it is not NULL
CurrentOutputReaders ==
    {"vo_wayland_reconfig", "surface_handle_enter", "output_handle_done",
     "vo_wayland_wait_frame", "VOCTRL_GET_DISPLAY_RES"}

output_handle_geometry_wl(w, o, x, y) ==
    [w EXCEPT !.outputs[o].geometry.x0 = x,
              !.outputs[o].geometry.y0 = y]

\* output_handle_mode() of any output: the size of the current mode, and
\* the refresh rate where the output is the current one
output_handle_mode_fn(w, o, current, width, height, refresh) ==
    IF ~current THEN w
    ELSE LET w1 == [w EXCEPT !.outputs[o].geometry.x1 = width,
                             !.outputs[o].geometry.y1 = height]
         IN IF o = w.current_output
            THEN output_handle_mode_wl(w1, current, refresh) ELSE w1

output_handle_scale_wl(w, o, factor) ==
    IF factor = 0 THEN w ELSE [w EXCEPT !.outputs[o].scale = factor]

\* output_handle_done()
output_handle_done_fn(w, vo, o, dwidth, dheight) ==
    LET w1 == [w EXCEPT !.outputs[o].geometry.x1 = @ + w.outputs[o].geometry.x0,
                        !.outputs[o].geometry.y1 = @ + w.outputs[o].geometry.y0]
        w2 == IF w1.current_output # 0 /\ w1.current_output = o
              THEN LET c == set_surface_scaling(w1, vo, w1.outputs[o].scale)
                   IN [set_geometry(c, dwidth, dheight)
                          EXCEPT !.pending_vo_events = @ \cup {"DPI", "RESIZE"}]
              ELSE w1
    IN [w2 EXCEPT !.pending_vo_events = @ \cup {"WIN_STATE"}]

\* variant: entering an output asks for a resize only if the window
\* geometry changed
surface_handle_enter_quiet(w, vo, o, dwidth, dheight) ==
    IF w.current_output = 0 THEN w
    ELSE LET old_output_geometry == w.outputs[w.current_output].geometry
             w1 == [w EXCEPT !.current_output = o,
                             !.outputs[o].has_surface = TRUE]
             rescale == w1.scaling # w1.outputs[o].scale
             w2 == IF rescale
                   THEN [set_surface_scaling(w1, vo, w1.outputs[o].scale)
                            EXCEPT !.pending_vo_events = @ \cup {"DPI"}]
                   ELSE w1
             moved == old_output_geometry # w2.outputs[o].geometry
             w3 == IF moved THEN set_geometry(w2, dwidth, dheight) ELSE w2
             w4 == IF w.geometry # w3.geometry
                   THEN [w3 EXCEPT !.pending_vo_events = @ \cup {"RESIZE"}]
                   ELSE w3
         IN [w4 EXCEPT !.pending_vo_events = @ \cup {"WIN_STATE"}]

\* surface_handle_enter(): o is the output of the event, which is one of
\* output_list
surface_handle_enter_fn(w, vo, o, dwidth, dheight) ==
    IF w.current_output = 0 THEN w
    ELSE IF w.outputs[o].freed THEN [w EXCEPT !.current_output = 0]
    ELSE LET old_output_geometry == w.outputs[w.current_output].geometry
             old_geometry == w.geometry
             w1 == [w EXCEPT !.current_output = o,
                             !.outputs[o].has_surface = TRUE]
             rescale == w1.scaling # w1.outputs[o].scale
             w2 == IF rescale
                   THEN [set_surface_scaling(w1, vo, w1.outputs[o].scale)
                            EXCEPT !.pending_vo_events = @ \cup {"DPI"}]
                   ELSE w1
             moved == old_output_geometry # w2.outputs[o].geometry
             w3 == IF moved THEN set_geometry(w2, dwidth, dheight) ELSE w2
             force_resize == rescale \/ moved
             w4 == IF old_geometry # w3.geometry \/ force_resize
                   THEN [w3 EXCEPT !.pending_vo_events = @ \cup {"RESIZE"}]
                   ELSE w3
         IN [w4 EXCEPT !.pending_vo_events = @ \cup {"WIN_STATE"}]

\* int pos = wl_fixed_to_double(f): a wl_fixed_t counts 1/256 of a pixel,
\* and the conversion of the double to int drops the fraction
wl_fixed_to_pos(f) == IF f >= 0 THEN f \div 256 ELSE -((-f) \div 256)

\* variant: a side once found is the edge, whatever the other axis says
check_for_resize_side(w, o, x_w, y_w, edge_pixels) ==
    IF o.fullscreen \/ o.window_maximized
    THEN [ret |-> FALSE, edge |-> "unset"]
    ELSE LET pos == <<wl_fixed_to_pos(x_w), wl_fixed_to_pos(y_w)>>
             left_edge == pos[1] < edge_pixels
             top_edge == pos[2] < edge_pixels
             right_edge == pos[1] > mp_rect_w(w.geometry) - edge_pixels
             bottom_edge == pos[2] > mp_rect_h(w.geometry) - edge_pixels
         IN IF left_edge THEN [ret |-> TRUE, edge |-> "LEFT"]
            ELSE IF right_edge THEN [ret |-> TRUE, edge |-> "RIGHT"]
            ELSE IF top_edge THEN [ret |-> TRUE, edge |-> "TOP"]
            ELSE IF bottom_edge THEN [ret |-> TRUE, edge |-> "BOTTOM"]
            ELSE [ret |-> FALSE, edge |-> "NONE"]

\* check_for_resize(): edge is what *edge holds on return, "unset" where
\* the function did not write it
check_for_resize_fn(w, o, x_w, y_w, edge_pixels) ==
    IF o.fullscreen \/ o.window_maximized
    THEN [ret |-> FALSE, edge |-> "unset"]
    ELSE LET pos == <<wl_fixed_to_pos(x_w), wl_fixed_to_pos(y_w)>>
             left_edge == pos[1] < edge_pixels
             top_edge == pos[2] < edge_pixels
             right_edge == pos[1] > mp_rect_w(w.geometry) - edge_pixels
             bottom_edge == pos[2] > mp_rect_h(w.geometry) - edge_pixels
         IN IF left_edge
            THEN [ret |-> TRUE,
                  edge |-> IF top_edge THEN "TOP_LEFT"
                           ELSE IF bottom_edge THEN "BOTTOM_LEFT"
                           ELSE "LEFT"]
            ELSE IF right_edge
            THEN [ret |-> TRUE,
                  edge |-> IF top_edge THEN "TOP_RIGHT"
                           ELSE IF bottom_edge THEN "BOTTOM_RIGHT"
                           ELSE "RIGHT"]
            ELSE IF top_edge THEN [ret |-> TRUE, edge |-> "TOP"]
            ELSE IF bottom_edge THEN [ret |-> TRUE, edge |-> "BOTTOM"]
            ELSE [ret |-> FALSE, edge |-> "NONE"]

\* pointer_handle_button(): the xdg_toplevel request the handler issues
\* ("resize", "move" or "none"); left and down say that the button is the
\* left one and pressed, dragging is what mp_input_test_dragging answers,
\* (x_w, y_w) is mouse_unscaled_x, mouse_unscaled_y
pointer_handle_button_fn(w, o, left, down, dragging, x_w, y_w, edge_pixels) ==
    IF ~dragging /\ ~o.fullscreen /\ ~o.window_maximized /\ left /\ down
    THEN LET r == check_for_resize_fn(w, o, x_w, y_w, edge_pixels)
         IN IF ~w.xdg_toplevel_decoration /\ r.ret
            THEN [request |-> "resize", edge |-> r.edge]
            ELSE [request |-> "move", edge |-> "unset"]
    ELSE [request |-> "none", edge |-> "unset"]

\* touch_handle_down(): the xdg_toplevel request the handler issues
touch_handle_down_fn(w, o, x_w, y_w, edge_pixels) ==
    LET r == check_for_resize_fn(w, o, x_w, y_w, edge_pixels)
    IN [request |-> IF r.ret THEN "resize" ELSE "move",
        ret |-> r.ret, edge |-> r.edge]

\* vo_wayland_control(VOCTRL_SET_UNFS_WINDOW_SIZE) up to the dispatch of
\* pending events
set_unfs_window_size_begin(w, s0, s1) ==
    [w EXCEPT !.window_size = Rect(0, 0, s0 \div w.scaling, s1 \div w.scaling)]

\* vo_wayland_control(VOCTRL_SET_UNFS_WINDOW_SIZE) after that dispatch, and
\* without it when the window is neither fullscreen nor maximized
set_unfs_window_size_end(w, o) ==
    IF ~o.window_maximized
    THEN [w EXCEPT !.geometry = w.window_size,
                   !.pending_vo_events = @ \cup {"RESIZE"}]
    ELSE w

----------------------------------------------------------------------------
(* Drag and drop: wayland_common.c *)

\* the mime types a source advertises; "NULL" is the NULL string
MimeTypes == {"m5", "m10", "m30"}

\* mp_event_get_mime_type_score() of the input layer
mp_event_get_mime_type_score(mime_type) ==
    CASE mime_type = "m5" -> 5
      [] mime_type = "m10" -> 10
      [] mime_type = "m30" -> 30

\* enum mp_dnd_action
DND_REPLACE == 0

DND_APPEND == 1

\* a wl_data_offer object: whether it offers what is dragged ("drag") or
\* the selection ("selection"), the types its source advertised, the action
\* the compositor negotiated for it (-1: none yet), whether a drag entered
\* the surface with it, and the wl_data_offer_destroy requests issued on it
NewOffer(kind) ==
    [kind |-> kind, types |-> {}, action |-> -1, entered |-> FALSE,
     destroys |-> 0]

\* the type of the highest score among the types of an offer
Best(types) ==
    IF types = {} THEN "NULL"
    ELSE CHOOSE t \in types :
             \A u \in types : mp_event_get_mime_type_score(u)
                                  <= mp_event_get_mime_type_score(t)

\* a pipe of a drop: the offer and the mime type of the
\* wl_data_offer_receive request, the bytes the source wrote, whether the
\* source closed its end, and whether the read end is open; for the record,
\* the best of the types the offer advertised, the action negotiated for
\* it, and the payloads read from the pipe and given to the input layer
NewPipe(s, offer, mime_type) ==
    [offer |-> offer, mime_type |-> mime_type, written |-> 0,
     weof |-> FALSE, ropen |-> TRUE,
     best |-> IF offer = 0 THEN "NULL" ELSE Best(s.offers[offer].types),
     action |-> IF offer = 0 THEN -1 ELSE s.offers[offer].action,
     delivered |-> 0]

\* close() of the read end: the pipe is gone, the count of its deliveries
\* is all that is kept
ClosedPipe(delivered) ==
    [offer |-> 0, mime_type |-> "NULL", written |-> 0,
     weof |-> TRUE, ropen |-> FALSE, best |-> "NULL", action |-> -1,
     delivered |-> delivered]

\* wl_data_offer_destroy(): the object is gone, the count of the requests
\* issued on it is all that is kept
wl_data_offer_destroy(s, id) ==
    [s EXCEPT !.offers[id] =
                  [NewOffer("gone") EXCEPT
                       !.destroys = s.offers[id].destroys + 1]]

\* data_offer_handle_offer()
data_offer_handle_offer_wl(w, mime_type) ==
    LET score == mp_event_get_mime_type_score(mime_type)
    IN IF score > w.dnd_mime_score
       THEN [w EXCEPT !.dnd_mime_score = score, !.dnd_mime_type = mime_type]
       ELSE w

\* data_offer_action(): copy is dnd_action & DND_ACTION_COPY
data_offer_action_wl(w, copy) ==
    [w EXCEPT !.dnd_action = IF copy THEN DND_REPLACE ELSE DND_APPEND]

\* variant: the offer that is replaced is not destroyed
data_device_handle_data_offer_keep(w, s, id) ==
    [wl |-> [w EXCEPT !.dnd_offer = id], sys |-> s]

\* data_device_handle_data_offer(): the result is the pair of the new
\* vo_wayland_state and the new surroundings
data_device_handle_data_offer_fn(w, s, id) ==
    [wl |-> [w EXCEPT !.dnd_offer = id],
     sys |-> IF w.dnd_offer # 0 THEN wl_data_offer_destroy(s, w.dnd_offer)
             ELSE s]

\* data_device_handle_leave()
data_device_handle_leave_fn(w, s) ==
    IF w.dnd_offer # 0 /\ w.dnd_fd # -1
    THEN [wl |-> w, sys |-> s]
    ELSE [wl |-> [w EXCEPT !.dnd_offer = 0, !.dnd_mime_type = "NULL",
                           !.dnd_mime_score = 0],
          sys |-> IF w.dnd_offer # 0 THEN wl_data_offer_destroy(s, w.dnd_offer)
                  ELSE s]

\* data_device_handle_drop(): piped is FALSE when pipe2 fails; the new pipe
\* gets the next descriptor
data_device_handle_drop_fn(w, s, piped) ==
    IF ~piped THEN [wl |-> w, sys |-> s]
    ELSE [wl |-> [w EXCEPT !.dnd_fd = Len(s.pipes) + 1],
          sys |-> [s EXCEPT !.pipes =
                       Append(@, NewPipe(s, w.dnd_offer, w.dnd_mime_type))]]

\* data_device_handle_selection()
data_device_handle_selection_fn(w, s) ==
    IF w.dnd_offer # 0
    THEN [wl |-> [w EXCEPT !.dnd_offer = 0],
          sys |-> wl_data_offer_destroy(s, w.dnd_offer)]
    ELSE [wl |-> w, sys |-> s]

\* poll() on the read end of a pipe
pipe_revents(pipe) ==
    (IF pipe.written > 0 THEN {"POLLIN"} ELSE {})
        \cup (IF pipe.weof THEN {"POLLHUP"} ELSE {})

\* mp_event_drop_mime_data(): what the input layer is given; total is the
\* number of bytes the source had written when it closed its end
Dropped(fd, mime_type, bytes, action, total) ==
    [fd |-> fd, mime_type |-> mime_type, bytes |-> bytes, action |-> action,
     total |-> total]

NoDrop == Dropped(-1, "NULL", 0, -1, 0)

\* check_dnd_fd(): the reads block until the source has written the rest of
\* its payload (more bytes) and closed its end; used is the offer of the
\* wl_data_offer_finish request (-1: no request), dropped what the input
\* layer was given
check_dnd_fd(w, s, more) ==
    IF w.dnd_fd = -1
    THEN [wl |-> w, sys |-> s, used |-> -1, dropped |-> NoDrop]
    ELSE LET fd == w.dnd_fd
             revents == pipe_revents(s.pipes[fd])
             total == s.pipes[fd].written + more
         IN IF revents = {}
            THEN [wl |-> w, sys |-> s, used |-> -1, dropped |-> NoDrop]
            ELSE IF "POLLIN" \in revents
            THEN [wl |-> [w EXCEPT !.dnd_action = -1,
                                   !.dnd_mime_type = "NULL",
                                   !.dnd_mime_score = 0,
                                   !.dnd_fd = -1],
                  sys |-> [s EXCEPT !.pipes[fd] =
                               ClosedPipe(s.pipes[fd].delivered + 1)],
                  used |-> IF w.dnd_action >= 0 /\ w.dnd_offer # 0
                           THEN w.dnd_offer ELSE -1,
                  dropped |-> Dropped(fd, w.dnd_mime_type, total,
                                      w.dnd_action, total)]
            ELSE [wl |-> [w EXCEPT !.dnd_fd = -1],
                  sys |-> [s EXCEPT !.pipes[fd] =
                               ClosedPipe(s.pipes[fd].delivered)],
                  used |-> -1, dropped |-> NoDrop]

----------------------------------------------------------------------------
(* Format negotiation: wayland_common.c *)

\* dmabuf_format(): zwp_linux_dmabuf_v1 version 2 appends a format to the list
dmabuf_format_wl(w, format) ==
    [w EXCEPT !.drm_formats = Append(@, format)]

\* format_table(): zwp_linux_dmabuf_feedback_v1 maps the table of
\* (format, modifier) pairs; mapped is FALSE when mmap fails
format_table_wl(w, table, mapped) ==
    IF mapped THEN [w EXCEPT !.format_map = table] ELSE w

\* format_table(): the mappings of the process; mmaps[i] is the number of
\* munmap calls the i-th mapping got, and wl->format_map, where it is set,
\* is the mapping made last
format_table_sys(s, mapped) ==
    IF mapped THEN [s EXCEPT !.mmaps = Append(@, 0)] ELSE s

\* munmap(wl->format_map, wl->format_size); with no mapping the call fails
munmap_format_map(s) ==
    IF s.mmaps = <<>> THEN s
    ELSE [s EXCEPT !.mmaps[Len(s.mmaps)] = @ + 1]

\* the xkb objects of the process: xkb[i] is a keymap (keymap = 0) or a
\* state made from keymap xkb[i].keymap, with the number of unref calls it
\* got; wl.xkb_keymap and wl.xkb_state are positions in xkb, 0 for NULL
xkb_new(s, keymap) == [s EXCEPT !.xkb = Append(@, [keymap |-> keymap,
                                                    unrefs |-> 0])]

xkb_unref(s, i) == [s EXCEPT !.xkb[i].unrefs = @ + 1]

\* keyboard_handle_keymap(): format_ok says the format is XKB_V1, mapped
\* that mmap succeeded, compiled that xkb_keymap_new_from_buffer returned a
\* keymap, state_ok that xkb_state_new returned a state
keyboard_handle_keymap_fn(w, s, format_ok, mapped, compiled, state_ok) ==
    IF ~format_ok \/ ~mapped THEN [wl |-> w, sys |-> s]
    ELSE IF ~compiled THEN [wl |-> [w EXCEPT !.xkb_keymap = 0], sys |-> s]
    ELSE LET s1 == xkb_new(s, 0)
             keymap == Len(s1.xkb)
             w1 == [w EXCEPT !.xkb_keymap = keymap]
         IN IF state_ok
            THEN LET s2 == xkb_new(s1, keymap)
                 IN [wl |-> [w1 EXCEPT !.xkb_state = Len(s2.xkb)], sys |-> s2]
            ELSE [wl |-> [w1 EXCEPT !.xkb_state = 0, !.xkb_keymap = 0],
                  sys |-> xkb_unref(s1, keymap)]

\* vo_wayland_uninit(): what it does to the resources of the process
vo_wayland_uninit_fn(w, s) ==
    LET s1 == IF w.xkb_keymap # 0 THEN xkb_unref(s, w.xkb_keymap) ELSE s
        s2 == IF w.xkb_state # 0 THEN xkb_unref(s1, w.xkb_state) ELSE s1
        s3 == [s2 EXCEPT !.display_closes = @ + 1]
    IN [wl |-> w, sys |-> munmap_format_map(s3)]

\* vo_wayland_supported_format(): the version 4 table is matched on format
\* and modifier, the version 2 list on format alone
vo_wayland_supported_format(w, drm_format, modifier) ==
    \/ \E i \in 1 .. Len(w.format_map) :
          w.format_map[i] = <<drm_format, modifier>>
    \/ \E i \in 1 .. Len(w.drm_formats) : w.drm_formats[i] = drm_format

----------------------------------------------------------------------------
(* Hardware frames and their import: vo_dmabuf_wayland.c *)

\* A frame src is [id, drm_format, modifier, num_planes, num_objects]: id is
\* the VA surface id of a VA-API frame and objects[0].fd of a DRM-PRIME
\* frame; its descriptor has one layer of num_planes planes in num_objects
\* objects.
vaapi_key_provider(src) == src.id

drmprime_key_provider(src) == src.id

\* the result of an importer: whether the buffer was imported, the number
\* of zwp_linux_buffer_params_v1_add requests issued, entry->drm_format
Imported(ok, adds, drm_format) ==
    [imported |-> ok, adds |-> adds, drm_format |-> drm_format]

\* vaapi_dmabuf_importer(): status is what vaExportSurfaceHandle returns,
\* desc the descriptor it leaves (any value when the export failed)
vaapi_dmabuf_importer(w, status, desc) ==
    IF status = "INVALID_SURFACE" THEN Imported(FALSE, 0, 0)
    ELSE IF ~vo_wayland_supported_format(w, desc.drm_format, desc.modifier)
    THEN Imported(FALSE, 0, 0)
    ELSE IF status = "SUCCESS"
    THEN Imported(TRUE, desc.num_planes, desc.drm_format)
    ELSE Imported(FALSE, 0, 0)

\* vaExportSurfaceHandle(): the descriptors it opens, objects[i - 1].fd
\* being descriptor i; a failed export opens none
vaExportSurfaceHandle_fds(status, desc) ==
    IF status = "SUCCESS" THEN 1 .. desc.num_objects ELSE {}

\* variant: the clean-up stops one object short
vaapi_dmabuf_importer_closes_short(status, desc) ==
    IF status # "INVALID_SURFACE"
    THEN [i \in 1 .. desc.num_objects - 1 |-> i]
    ELSE <<>>

\* vaapi_dmabuf_importer(): the close() calls of the clean-up, in order
\* (after a failed export other than INVALID_SURFACE the descriptor is not
\* initialised, and desc is any value)
vaapi_dmabuf_importer_closes(status, desc) ==
    IF status # "INVALID_SURFACE"
    THEN [i \in 1 .. desc.num_objects |-> i]
    ELSE <<>>

\* drmprime_dmabuf_importer(): adds every plane of the frame's descriptor
drmprime_dmabuf_importer(w, src) ==
    Imported(TRUE, src.num_planes, src.drm_format)

----------------------------------------------------------------------------
(* The buffer pool (wlbuf_pool.h): entries are [key, buffer, drm_format,   *)
(* frame], frame being TRUE while the buffer is with the compositor        *)

\* a NULL pool pointer, a NULL entry pointer
NoPool == [importer |-> "NULL", entries |-> {}]

NoEntry == [key |-> 0, buffer |-> 0, drm_format |-> 0, frame |-> FALSE]

wlbuf_pool_alloc(importer) == [importer |-> importer, entries |-> {}]

wlbuf_pool_clean(pool) ==
    IF pool = NoPool THEN pool ELSE [pool EXCEPT !.entries = {}]

pool_key(pool, src) ==
    IF pool.importer = "vaapi" THEN vaapi_key_provider(src)
    ELSE drmprime_key_provider(src)

pool_import(pool, w, src, status, desc) ==
    IF pool.importer = "vaapi" THEN vaapi_dmabuf_importer(w, status, desc)
    ELSE drmprime_dmabuf_importer(w, src)

\* the descriptors the importer of the pool opened when it was called
pool_exported(pool, calls, status, desc) ==
    IF calls = 1 /\ pool.importer = "vaapi"
    THEN vaExportSurfaceHandle_fds(status, desc) ELSE {}

\* the close() calls of the importer of the pool when it was called
pool_closes(pool, calls, status, desc) ==
    IF calls = 1 /\ pool.importer = "vaapi"
    THEN vaapi_dmabuf_importer_closes(status, desc) ELSE <<>>

\* the buffer handle zwp_linux_buffer_params_v1_create_immed returns: one
\* no live entry holds
new_buffer(pool) ==
    CHOOSE b \in 1 .. Cardinality(pool.entries) + 1 :
        \A e \in pool.entries : e.buffer # b

\* wlbuf_pool_get_entry(): the result is the pool it leaves, the entry it
\* returns (NoEntry for NULL) and what the importer did, if it was called
Got(pool, entry, calls, imp) ==
    [pool |-> pool, entry |-> entry, imports |-> calls, imp |-> imp]

\* variant: every frame is imported, whatever the pool holds
wlbuf_pool_get_entry_import(pool, w, src, status, desc) ==
    LET key == pool_key(pool, src)
        imp == pool_import(pool, w, src, status, desc)
        e == [key |-> key, buffer |-> new_buffer(pool),
              drm_format |-> imp.drm_format, frame |-> TRUE]
    IN IF imp.imported
       THEN Got([pool EXCEPT !.entries = @ \cup {e}], e, 1, imp)
       ELSE Got(pool, NoEntry, 1, imp)

wlbuf_pool_get_entry(pool, w, src, status, desc) ==
    LET key == pool_key(pool, src)
        live == {e \in pool.entries : e.key = key}
    IN IF live # {}
       THEN LET e == CHOOSE x \in live : TRUE
                e2 == [e EXCEPT !.frame = TRUE]
            IN Got([pool EXCEPT !.entries = (@ \ {e}) \cup {e2}], e2, 0,
                   Imported(FALSE, 0, 0))
       ELSE LET imp == pool_import(pool, w, src, status, desc)
                e == [key |-> key, buffer |-> new_buffer(pool),
                      drm_format |-> imp.drm_format, frame |-> TRUE]
            IN IF imp.imported
               THEN Got([pool EXCEPT !.entries = @ \cup {e}], e, 1, imp)
               ELSE Got(pool, NoEntry, 1, imp)

\* the compositor's wl_buffer release of an entry's buffer
wlbuf_pool_release(pool, e) ==
    [pool EXCEPT !.entries = (@ \ {e}) \cup {[e EXCEPT !.frame = FALSE]}]

----------------------------------------------------------------------------
(* The driver: vo_dmabuf_wayland.c *)

\* variant: the pool is also flushed on the third draw after a reset
draw_frame_reset_three(q) ==
    LET n == q.reset_count + 1
        clean == q.want_reset /\ n <= 3
    IN [q EXCEPT !.reset_count = n,
                 !.wlbuf_pool = IF clean THEN wlbuf_pool_clean(@) ELSE @,
                 !.want_reset = IF clean /\ n = 3 THEN FALSE ELSE @]

\* draw_frame(): the reset bookkeeping before the pool is used
draw_frame_reset(q) ==
    LET n == q.reset_count + 1
        clean == q.want_reset /\ n <= 2
    IN [q EXCEPT !.reset_count = n,
                 !.wlbuf_pool = IF clean THEN wlbuf_pool_clean(@) ELSE @,
                 !.want_reset = IF clean /\ n = 2 THEN FALSE ELSE @]

\* draw_frame(): the lazy allocation of the pool
draw_frame_alloc(q, r) ==
    IF q.wlbuf_pool # NoPool THEN q
    ELSE [q EXCEPT !.display = r.VADisplay,
                   !.wlbuf_pool = IF r.VADisplay
                                  THEN wlbuf_pool_alloc("vaapi")
                                  ELSE wlbuf_pool_alloc("drmprime")]

\* reconfig(): the 1x1 solid buffer of the main surface; memfd, pool and
\* buffer are whether vo_wayland_allocate_memfd, wl_shm_create_pool and
\* wl_shm_pool_create_buffer succeed; ret is whether the call goes on to
\* vo_wayland_reconfig (otherwise it returns VO_ERROR)
reconfig_solid_buffer(q, s, memfd, pool, buffer) ==
    IF q.solid_buffer_pool THEN [p |-> q, sys |-> s, ret |-> TRUE]
    ELSE IF ~memfd THEN [p |-> q, sys |-> s, ret |-> FALSE]
    ELSE IF ~pool THEN [p |-> q, sys |-> s, ret |-> FALSE]
    ELSE IF ~buffer
    THEN [p |-> [q EXCEPT !.solid_buffer_pool = TRUE], sys |-> s,
          ret |-> FALSE]
    ELSE [p |-> [q EXCEPT !.solid_buffer_pool = TRUE, !.solid_buffer = TRUE],
          sys |-> [s EXCEPT !.attached = TRUE], ret |-> TRUE]

\* control(VOCTRL_RESET)
control_reset(q) == [q EXCEPT !.want_reset = TRUE, !.reset_count = 0]

----------------------------------------------------------------------------
(* History *)

\* what the last step did: the operation; for handle_toplevel_config the
\* states of the event; for draw_frame the key of the frame, whether the
\* compositor had announced the frame's format and modifier, the calls of
\* the importer, whether it imported, the zwp_linux_buffer_params_v1_add
\* requests it issued, the buffer attached to the video surface (0: none),
\* the descriptors the importer's export opened and its close() calls; for
\* the drag-and-drop handlers the offer a wl_data_offer_accept, _receive
\* or _finish request was issued on (0: NULL, -1: no request) and the mime
\* type of the request; for VOCTRL_CHECK_EVENTS what the input layer was
\* given; for a dispatch whether its poll waited until the timeout and
\* whether it found the wakeup pipe readable
Op(name) ==
    [op |-> name, states |-> {}, key |-> 0, supported |-> FALSE,
     imports |-> 0, imported |-> FALSE, adds |-> 0, buffer |-> 0,
     exported |-> {}, closed |-> <<>>, used |-> -1, mime_type |-> "NULL",
     dropped |-> NoDrop, timed_out |-> FALSE, woken |-> FALSE,
     ret |-> TRUE, args |-> <<>>, set_mode |-> "none", edge |-> "unset",
     request |-> "none"]

Configure(states) == [Op("handle_toplevel_config") EXCEPT !.states = states]

Used(name, offer, mime_type) ==
    [Op(name) EXCEPT !.used = offer, !.mime_type = mime_type]

Draw(key, supported, g, exported, closed) ==
    [Op("draw_frame") EXCEPT !.key = key, !.supported = supported,
                             !.imports = g.imports,
                             !.imported = g.imp.imported,
                             !.adds = g.imp.adds,
                             !.buffer = g.entry.buffer,
                             !.exported = exported,
                             !.closed = closed]

\* streak: the number of consecutive vo_wayland_wait_frame calls that
\* returned with the deadline missed, counted from the last state in which
\* timeout_count was 0 and the surface was not hidden; a fired frame
\* callback ends the streak (-1: no streak is being counted).
Streak(o, name, w, w2) ==
    IF w2.timeout_count = 0 /\ ~w2.hidden THEN 0
    ELSE IF name = "frame_callback" THEN -1
    ELSE IF name = "wait_frame_return" /\ w.frame_wait /\ o.streak >= 0
         THEN IF o.streak < MaxStreak THEN o.streak + 1 ELSE MaxStreak
    ELSE o.streak

\* fired: a frame callback fired since the last missed frame wait
Fired(o, name, w) ==
    IF name = "frame_callback" THEN TRUE
    ELSE IF name = "wait_frame_return" /\ w.frame_wait THEN FALSE
    ELSE o.fired

\* configs: the number of toplevel configure events handled while the
\* geometry was non-zero (0, 1, or 2 for more)
Configs(o, name, w) ==
    IF /\ name = "handle_toplevel_config"
       /\ mp_rect_w(w.geometry) # 0 /\ mp_rect_h(w.geometry) # 0
       /\ o.configs < 2
    THEN o.configs + 1
    ELSE o.configs

\* draws: the number of draw_frame calls since the last VOCTRL_RESET that
\* found the surface visible and went on to the pool (3 for more, -1 when
\* no VOCTRL_RESET was received yet)
Draws(o, name, w) ==
    IF name = "VOCTRL_RESET" THEN 0
    ELSE IF name = "draw_frame" /\ check_visible_render(w, opts) /\ o.draws >= 0
         THEN IF o.draws < 3 THEN o.draws + 1 ELSE 3
    ELSE o.draws

\* offers: the number of wl_data_offer objects introduced since the last
\* leave event, or since the start (2 for more)
Offers(o, name) ==
    IF name = "data_device_handle_leave" THEN 0
    ELSE IF name = "data_device_handle_data_offer" /\ o.offers < 2
         THEN o.offers + 1
    ELSE o.offers

\* acked: the compositor configured the decoration after the user last
\* changed the border option
Acked(o, name) ==
    IF name = "configure_decorations" THEN TRUE
    ELSE IF name = "VOCTRL_VO_OPTS_CHANGED:border" THEN FALSE
    ELSE o.acked

\* modes: the size of the current mode each output reported last
NoModes == [o \in 1 .. MaxOutputs |-> <<0, 0>>]

Observe(name, w, w2) ==
    [streak |-> Streak(obs, name, w, w2),
     fired |-> Fired(obs, name, w),
     configs |-> Configs(obs, name, w),
     draws |-> Draws(obs, name, w),
     offers |-> Offers(obs, name),
     failed |-> obs.failed,
     acked |-> Acked(obs, name),
     modes |-> obs.modes]

----------------------------------------------------------------------------
(* Inputs *)

\* widths and heights a configure event carries
Dims == 0 .. MaxDim

\* widths and heights vo_calc_window_geometry computes, and those the
\* player asks for
Sizes == 1 .. MaxDim

\* refresh intervals of presentation feedback, in nanoseconds: none, below
\* a microsecond, 120 Hz
RefreshNsecs == {0, 999, 8333333}

\* vsync durations the presentation feedback yields, in microseconds
VsyncDurations == {-1, 0, 6944}

\* refresh rates of output modes, in mHz: unknown, 50 Hz, 59.94 Hz, and a
\* rate above a million Hz
Refreshes == {0, 50000, 59940, 2000000000}

\* video sizes with the divisors 1, 2 and 3
VideoSizes == {<<1, 1>>, <<3, 2>>, <<4, 6>>, <<6, 3>>}

\* hardware frames and the descriptors vaExportSurfaceHandle leaves
Frames ==
    [id : 1 .. MaxKeys, drm_format : 1 .. MaxFormat,
     modifier : 0 .. MaxModifier, num_planes : 1 .. MaxPlanes,
     num_objects : 1 .. MaxObjects]

\* the frames of the format and modifier of the format table
AnnouncedFrames == {f \in Frames : f.drm_format = 1 /\ f.modifier = 0}

\* the frames of one surface
OneSurfaceFrames == {f \in Frames : f.id = 1}

VAStatus == {"SUCCESS", "INVALID_SURFACE", "OPERATION_FAILED"}

----------------------------------------------------------------------------
(* Initial state: the state vo_wayland_init() and preinit() leave *)

\* talloc_zero and the initializer of vo_wayland_init
ZeroWl ==
    [frame_wait |-> FALSE, hidden |-> FALSE, timeout_count |-> 0,
     presentation |-> FALSE, feedback |-> FALSE,
     geometry |-> ZeroRect, vdparams |-> ZeroRect, window_size |-> ZeroRect,
     current_output |-> 0,
     bounded_width |-> 0, bounded_height |-> 0,
     gcd |-> 0, reduced_width |-> 0, reduced_height |-> 0,
     toplevel_width |-> 0, toplevel_height |-> 0,
     activated |-> FALSE, has_keyboard_input |-> FALSE, focused |-> FALSE,
     state_change |-> FALSE, toplevel_configured |-> FALSE,
     pending_vo_events |-> {}, scaling |-> 1,
     format_map |-> <<>>, drm_formats |-> <<>>,
     dnd_offer |-> 0, dnd_action |-> DND_REPLACE, dnd_mime_type |-> "NULL",
     dnd_fd |-> -1, dnd_mime_score |-> 0,
     display_fd |-> 0,
     wm_base |-> FALSE, output_list |-> 0, seat |-> FALSE,
     dnd_devman |-> FALSE, dnd_ddev |-> FALSE, present |-> FALSE,
     xdg_decoration_manager |-> FALSE, xdg_toplevel_decoration |-> FALSE,
     requested_decoration |-> "none", idle_inhibit_manager |-> FALSE,
     use_present |-> FALSE, refresh_interval |-> 0, vsync_duration |-> 0,
     refresh_rate |-> 0, binds |-> {}, outputs |-> <<>>,
     xkb_keymap |-> 0, xkb_state |-> 0]

\* a global the compositor advertises in its registry
Global(interface, ver) == [interface |-> interface, ver |-> ver]

\* the globals init looks for (wl_compositor and wl_shm, which every
\* compositor has, are left out); the data-device manager and the output
\* come in versions below and above the ones registry_handle_add binds
Globals ==
    {Global("xdg_wm_base", 1),
     Global("wl_output", 1), Global("wl_output", 2), Global("wl_output", 4),
     Global("wl_seat", 1),
     Global("wl_data_device_manager", 2), Global("wl_data_device_manager", 3),
     Global("wp_presentation", 1),
     Global("zxdg_decoration_manager_v1", 1),
     Global("zwp_idle_inhibit_manager_v1", 1)}

\* the interfaces registry_handle_add knows, and one it does not know
Interfaces ==
    {"wl_compositor", "wl_subcompositor", "zwp_linux_dmabuf_v1",
     "wp_viewporter", "wl_data_device_manager", "wl_output", "wl_seat",
     "wl_shm", "wp_presentation", "xdg_wm_base",
     "zxdg_decoration_manager_v1", "zwp_idle_inhibit_manager_v1", "wl_drm"}

\* a compositor with every global but presentation-time
InitGlobals == Globals \ {Global("wp_presentation", 1)}

\* no offer was introduced, no drag is over the surface, nothing was
\* dropped; the connection works, the wakeup pipe is empty
InitSys ==
    [offers |-> <<>>, drag |-> "none", pipes |-> <<>>,
     display_err |-> FALSE, close_requests |-> 0, wakeup |-> 0,
     globals |-> InitGlobals, attached |-> FALSE, mmaps |-> <<>>,
     xkb |-> <<>>, display_closes |-> 0]

InitPriv == [want_reset |-> FALSE, reset_count |-> 0, wlbuf_pool |-> NoPool,
             display |-> FALSE,
             solid_buffer_pool |-> FALSE, solid_buffer |-> FALSE]

\* the option values the player starts the VO with
VoOpts ==
    [fullscreen : BOOLEAN, window_maximized : {FALSE},
     window_minimized : {FALSE}, border : {TRUE},
     keepaspect : BOOLEAN, keepaspect_window : BOOLEAN,
     hidpi_window_scale : {TRUE}]

DefaultVoOpts ==
    [fullscreen |-> FALSE, window_maximized |-> FALSE,
     window_minimized |-> FALSE, border |-> TRUE,
     keepaspect |-> TRUE, keepaspect_window |-> TRUE,
     hidpi_window_scale |-> TRUE]

DefaultOpts == [disable_vsync |-> FALSE, configure_bounds |-> TRUE]

\* wl_registry_bind: the global is bound at the version given
wl_registry_bind(w, interface, ver, version) ==
    [w EXCEPT !.binds = @ \cup {[interface |-> interface, ver |-> ver,
                                 version |-> version]}]

MPMIN(a, b) == IF a < b THEN a ELSE b

\* variant: the output is bound at the version the compositor advertises
registry_handle_add_advertised(w, interface, ver) ==
    IF interface = "wl_output" /\ ver >= 2
    THEN [wl_registry_bind(w, interface, ver, ver)
             EXCEPT !.output_list = @ + 1,
                    !.outputs = <<NewOutput>> \o @,
                    !.current_output = IF @ = 0 THEN 0 ELSE @ + 1]
    ELSE w

\* registry_handle_add: binds the global if its version is new enough
registry_handle_add(w, interface, ver) ==
    CASE interface = "wl_compositor" /\ ver >= 4 ->
             wl_registry_bind(w, interface, ver, 4)
      [] interface = "wl_subcompositor" /\ ver >= 1 ->
             wl_registry_bind(w, interface, ver, 1)
      [] interface = "zwp_linux_dmabuf_v1" /\ ver >= 4 ->
             wl_registry_bind(w, interface, ver, 4)
      [] interface = "zwp_linux_dmabuf_v1" /\ ver >= 2 /\ ver < 4 ->
             wl_registry_bind(w, interface, ver, 2)
      [] interface = "wp_viewporter" /\ ver >= 1 ->
             wl_registry_bind(w, interface, ver, 1)
      [] interface = "wl_data_device_manager" /\ ver >= 3 ->
             [wl_registry_bind(w, interface, ver, 3)
                 EXCEPT !.dnd_devman = TRUE]
      [] interface = "wl_output" /\ ver >= 2 ->
             [wl_registry_bind(w, interface, ver, MPMIN(ver, 4))
                 EXCEPT !.output_list = @ + 1,
                        !.outputs = <<NewOutput>> \o @,
                        !.current_output = IF @ = 0 THEN 0 ELSE @ + 1]
      [] interface = "wl_seat" ->
             [wl_registry_bind(w, interface, ver, 1) EXCEPT !.seat = TRUE]
      [] interface = "wl_shm" -> wl_registry_bind(w, interface, ver, 1)
      [] interface = "wp_presentation" ->
             [wl_registry_bind(w, interface, ver, 1)
                 EXCEPT !.presentation = TRUE]
      [] interface = "xdg_wm_base" ->
             [wl_registry_bind(w, interface, ver, MPMIN(ver, 4))
                 EXCEPT !.wm_base = TRUE]
      [] interface = "zxdg_decoration_manager_v1" ->
             [wl_registry_bind(w, interface, ver, 1)
                 EXCEPT !.xdg_decoration_manager = TRUE]
      [] interface = "zwp_idle_inhibit_manager_v1" ->
             [wl_registry_bind(w, interface, ver, 1)
                 EXCEPT !.idle_inhibit_manager = TRUE]
      [] OTHER -> w

\* the first roundtrip of vo_wayland_init: the registry listener runs for
\* every global
RECURSIVE wl_display_roundtrip(_, _)
wl_display_roundtrip(w, globals) ==
    IF globals = {} THEN w
    ELSE LET g == CHOOSE x \in globals : TRUE
         IN wl_display_roundtrip(registry_handle_add(w, g.interface, g.ver),
                                 globals \ {g})

\* a variant that is content with the base windowing protocol
required_globals_base(w) == w.wm_base

\* vo_wayland_init: what it cannot do without
required_globals(w) == w.wm_base /\ w.output_list # 0

request_decoration_mode(w, border) ==
    [w EXCEPT !.requested_decoration =
                  IF border THEN "SERVER_SIDE" ELSE "CLIENT_SIDE"]

\* vo_wayland_init; display, input and xdg tell whether wl_display_connect,
\* create_input and create_xdg_surface worked
vo_wayland_init_fn(o, globals, display, input, xdg) ==
    LET w1 == wl_display_roundtrip(ZeroWl, globals)
        failed(w) == [wl |-> w, vo_opts |-> o, ret |-> FALSE]
    IN IF ~display \/ ~input THEN failed(ZeroWl)
       ELSE IF ~required_globals(w1) THEN failed(w1)
       ELSE IF ~xdg THEN failed(w1)
       ELSE LET w2 == [w1 EXCEPT !.dnd_ddev = w1.dnd_devman /\ w1.seat,
                                 !.present = w1.presentation]
                w3 == IF w2.xdg_decoration_manager
                      THEN request_decoration_mode(
                               [w2 EXCEPT !.xdg_toplevel_decoration = TRUE],
                               o.border)
                      ELSE w2
                o3 == IF w2.xdg_decoration_manager THEN o
                      ELSE [o EXCEPT !.border = FALSE]
            IN [wl |-> [w3 EXCEPT !.display_fd = 3], vo_opts |-> o3,
                ret |-> TRUE]

\* a variant that writes the option the user wrote
control_opt_border_keep(w, o, border) ==
    [wl |-> w, vo_opts |-> [o EXCEPT !.border = border], set_mode |-> "none"]

\* a variant that requests the mode and keeps the value the user wrote
control_opt_border_write(w, o, border) ==
    IF w.xdg_toplevel_decoration
    THEN [wl |-> request_decoration_mode(w, border),
          vo_opts |-> [o EXCEPT !.border = border],
          set_mode |-> request_decoration_mode(w, border).requested_decoration]
    ELSE [wl |-> w, vo_opts |-> [o EXCEPT !.border = FALSE],
          set_mode |-> "none"]

\* vo_wayland_control(VOCTRL_VO_OPTS_CHANGED), opt == &opts->border;
\* border is the value the user wrote; set_mode is the mode of the
\* zxdg_toplevel_decoration_v1_set_mode request issued
control_opt_border(w, o, border) ==
    IF w.xdg_toplevel_decoration
    THEN [wl |-> request_decoration_mode(w, border),
          vo_opts |-> [o EXCEPT !.border = ~border],
          set_mode |-> request_decoration_mode(w, border).requested_decoration]
    ELSE [wl |-> w, vo_opts |-> [o EXCEPT !.border = FALSE],
          set_mode |-> "none"]

\* a variant that leaves the request outstanding
configure_decorations_fn_keep(w, o, mode) ==
    [wl |-> w, vo_opts |-> [o EXCEPT !.border = (mode = "SERVER_SIDE")]]

\* configure_decorations: the compositor answers with the mode it chose
configure_decorations_fn(w, o, mode) ==
    [wl |-> [w EXCEPT !.requested_decoration = "none"],
     vo_opts |-> [o EXCEPT !.border = (mode = "SERVER_SIDE")]]

\* the state vo_wayland_init leaves with a compositor of InitGlobals
InitWl ==
    vo_wayland_init_fn(DefaultVoOpts, InitGlobals, TRUE, TRUE, TRUE).wl

Start(w, o, r) ==
    /\ wl = w
    /\ vo_opts = o
    /\ opts = DefaultOpts
    /\ comp = [frame_callbacks |-> 1]
    /\ p = InitPriv
    /\ ra = r
    /\ pc = "idle"
    /\ last = Op("vo_wayland_init")
    /\ obs = [streak |-> 0, fired |-> FALSE, configs |-> 0, draws |-> -1,
              offers |-> 0, failed |-> FALSE, acked |-> FALSE,
              modes |-> NoModes]
    /\ sys = InitSys

Init == Start(InitWl, DefaultVoOpts, [VADisplay |-> TRUE])

InitWindow == \E o \in VoOpts : Start(InitWl, o, [VADisplay |-> TRUE])

\* the hardware decoder is VA-API or DRM-PRIME
\* before vo_wayland_init, with any set of globals and either value of the
\* border option
InitPre ==
    /\ wl = ZeroWl
    /\ vo_opts \in {[DefaultVoOpts EXCEPT !.border = b] : b \in BOOLEAN}
    /\ opts = DefaultOpts
    /\ comp = [frame_callbacks |-> 0]
    /\ p = InitPriv
    /\ ra = [VADisplay |-> TRUE]
    /\ pc = "preinit"
    /\ last = Op("talloc_zero")
    /\ obs = [streak |-> 0, fired |-> FALSE, configs |-> 0, draws |-> -1,
              offers |-> 0, failed |-> FALSE, acked |-> FALSE,
              modes |-> NoModes]
    /\ sys \in {[InitSys EXCEPT !.globals = g] : g \in SUBSET Globals}

\* after vo_wayland_init, with and without presentation-time
InitDeadline ==
    \E g \in {Globals, InitGlobals} :
        /\ wl = vo_wayland_init_fn(DefaultVoOpts, g, TRUE, TRUE, TRUE).wl
        /\ vo_opts = DefaultVoOpts
        /\ opts = DefaultOpts
        /\ comp = [frame_callbacks |-> 1]
        /\ p = InitPriv
        /\ ra = [VADisplay |-> TRUE]
        /\ pc = "idle"
        /\ last = Op("vo_wayland_init")
        /\ obs = [streak |-> 0, fired |-> FALSE, configs |-> 0,
                  draws |-> -1, offers |-> 0, failed |-> FALSE, acked |-> FALSE,
              modes |-> NoModes]
        /\ sys = [InitSys EXCEPT !.globals = g]

\* the registry listener was added and no global announced yet
InitRegistry ==
    /\ wl = ZeroWl
    /\ vo_opts = DefaultVoOpts
    /\ opts = DefaultOpts
    /\ comp = [frame_callbacks |-> 0]
    /\ p = InitPriv
    /\ ra = [VADisplay |-> TRUE]
    /\ pc = "preinit"
    /\ last = Op("wl_registry_add_listener")
    /\ obs = [streak |-> 0, fired |-> FALSE, configs |-> 0, draws |-> -1,
              offers |-> 0, failed |-> FALSE, acked |-> FALSE,
              modes |-> NoModes]
    /\ sys = [InitSys EXCEPT !.globals = {}]

InitImport ==
    \E d \in BOOLEAN : Start(InitWl, DefaultVoOpts, [VADisplay |-> d])

\* the compositor sent its format table during the roundtrips of
\* vo_wayland_init
InitPool ==
    \E d \in BOOLEAN :
        Start(format_table_wl(InitWl, <<<<1, 0>>>>, TRUE), DefaultVoOpts,
              [VADisplay |-> d])

----------------------------------------------------------------------------
(* Actions *)

\* the compositor fires the outstanding frame callback; the listener runs
\* from any event dispatch (vo_wayland_wait_events, the poll loop and the
\* roundtrip of vo_wayland_wait_frame, wl_display_dispatch_pending)
frame_callback ==
    /\ pc # "uninit"
    /\ comp.frame_callbacks > 0
    /\ wl' = frame_callback_wl(wl)
    /\ comp' = frame_callback_comp(comp)
    /\ last' = Op("frame_callback")
    /\ obs' = Observe("frame_callback", wl, wl')
    /\ UNCHANGED <<vo_opts, opts, p, ra, sys, pc>>

handle_toplevel_config(width, height, states, fp) ==
    /\ pc \notin {"uninit", "crashed"}
    /\ fp \in FpExcess(wl.reduced_width, width)
    /\ LET r == handle_toplevel_config_fn(wl, vo_opts, width, height, states, fp)
       IN /\ wl' = r.wl
          /\ vo_opts' = r.vo_opts
    /\ last' = [Configure(states) EXCEPT
                    !.set_mode = handle_toplevel_config_fn(
                        wl, vo_opts, width, height, states, fp).set_mode]
    /\ obs' = Observe("handle_toplevel_config", wl, wl')
    /\ UNCHANGED <<opts, comp, p, ra, sys, pc>>

handle_configure_bounds(width, height) ==
    /\ wl' = handle_configure_bounds_wl(wl, width, height)
    /\ last' = Op("handle_configure_bounds")
    /\ obs' = Observe("handle_configure_bounds", wl, wl')
    /\ UNCHANGED <<vo_opts, opts, comp, p, ra, sys, pc>>

keyboard_handle_enter ==
    /\ wl' = keyboard_handle_enter_wl(wl)
    /\ last' = Op("keyboard_handle_enter")
    /\ obs' = Observe("keyboard_handle_enter", wl, wl')
    /\ UNCHANGED <<vo_opts, opts, comp, p, ra, sys, pc>>

keyboard_handle_leave ==
    /\ wl' = keyboard_handle_leave_wl(wl)
    /\ last' = Op("keyboard_handle_leave")
    /\ obs' = Observe("keyboard_handle_leave", wl, wl')
    /\ UNCHANGED <<vo_opts, opts, comp, p, ra, sys, pc>>

dmabuf_format(format) ==
    /\ pc # "uninit"
    /\ Len(wl.drm_formats) < MaxDrmFormats
    /\ wl' = dmabuf_format_wl(wl, format)
    /\ last' = Op("dmabuf_format")
    /\ obs' = Observe("dmabuf_format", wl, wl')
    /\ UNCHANGED <<vo_opts, opts, comp, p, ra, sys, pc>>

format_table(table, mapped) ==
    /\ pc # "uninit"
    /\ Len(sys.mmaps) < MaxMaps
    /\ wl' = format_table_wl(wl, table, mapped)
    /\ sys' = format_table_sys(sys, mapped)
    /\ last' = Op("format_table")
    /\ obs' = Observe("format_table", wl, wl')
    /\ UNCHANGED <<vo_opts, opts, comp, p, ra, pc>>

\* the compositor sends a keymap
keyboard_handle_keymap(format_ok, mapped, compiled, state_ok) ==
    /\ pc \notin {"uninit", "crashed"}
    /\ Len(sys.xkb) < 2 * MaxKeymaps
    /\ LET r == keyboard_handle_keymap_fn(wl, sys, format_ok, mapped,
                                          compiled, state_ok)
       IN wl' = r.wl /\ sys' = r.sys
    /\ last' = Op("keyboard_handle_keymap")
    /\ obs' = Observe("keyboard_handle_keymap", wl, wl')
    /\ UNCHANGED <<vo_opts, opts, comp, p, ra, pc>>

\* the player closes the VO
vo_wayland_uninit ==
    /\ pc = "idle"
    /\ LET r == vo_wayland_uninit_fn(wl, sys)
       IN wl' = r.wl /\ sys' = r.sys
    /\ pc' = "uninit"
    /\ last' = Op("vo_wayland_uninit")
    /\ obs' = Observe("vo_wayland_uninit", wl, wl')
    /\ UNCHANGED <<vo_opts, opts, comp, p, ra>>

\* the compositor releases the buffer of a pool entry
wlbuf_pool_buffer_release ==
    /\ p.wlbuf_pool # NoPool
    /\ \E e \in p.wlbuf_pool.entries :
          /\ e.frame
          /\ p' = [p EXCEPT !.wlbuf_pool = wlbuf_pool_release(@, e)]
    /\ last' = Op("wlbuf_pool_buffer_release")
    /\ obs' = Observe("wlbuf_pool_buffer_release", wl, wl)
    /\ UNCHANGED <<wl, vo_opts, opts, comp, ra, sys, pc>>

\* the compositor introduces a wl_data_offer object, for the selection or
\* for a drag that is about to enter the surface
data_device_handle_data_offer(kind) ==
    /\ pc = "idle"
    /\ Len(sys.offers) < MaxOffers
    /\ kind = "drag" => sys.drag = "none"
    /\ LET id == Len(sys.offers) + 1
           r == data_device_handle_data_offer_fn(
                    wl, [sys EXCEPT !.offers = Append(@, NewOffer(kind))], id)
       IN wl' = r.wl /\ sys' = r.sys
    /\ last' = Op("data_device_handle_data_offer")
    /\ obs' = Observe("data_device_handle_data_offer", wl, wl')
    /\ UNCHANGED <<vo_opts, opts, comp, p, ra, pc>>

\* the source of the offer advertises a mime type; the types follow the
\* introduction of the object and precede its use
data_offer_handle_offer(mime_type) ==
    /\ pc = "idle"
    /\ wl.dnd_offer # 0
    /\ ~sys.offers[wl.dnd_offer].entered
    /\ wl' = data_offer_handle_offer_wl(wl, mime_type)
    /\ sys' = [sys EXCEPT !.offers[wl.dnd_offer].types = @ \cup {mime_type}]
    /\ last' = Op("data_offer_handle_offer")
    /\ obs' = Observe("data_offer_handle_offer", wl, wl')
    /\ UNCHANGED <<vo_opts, opts, comp, p, ra, pc>>

\* the compositor tells the action it chose for the offer of the drag over
\* the surface
data_offer_action(copy) ==
    /\ pc = "idle"
    /\ wl.dnd_offer # 0
    /\ sys.drag = "over"
    /\ sys.offers[wl.dnd_offer].entered
    /\ wl' = data_offer_action_wl(wl, copy)
    /\ sys' = [sys EXCEPT !.offers[wl.dnd_offer].action =
                   IF copy THEN DND_REPLACE ELSE DND_APPEND]
    /\ last' = Op("data_offer_action")
    /\ obs' = Observe("data_offer_action", wl, wl')
    /\ UNCHANGED <<vo_opts, opts, comp, p, ra, pc>>

\* a drag enters the surface with the offer id, an offer the compositor
\* introduced for this drag (a drag without an offer is one this client
\* started, and the player starts none)
data_device_handle_enter(id) ==
    /\ pc = "idle"
    /\ sys.drag = "none"
    /\ id \in DOMAIN sys.offers
    /\ sys.offers[id].kind = "drag" /\ ~sys.offers[id].entered
    /\ IF wl.dnd_offer # id
       THEN last' = Op("data_device_handle_enter")
       ELSE last' = Used("data_device_handle_enter", id, wl.dnd_mime_type)
    /\ sys' = [sys EXCEPT !.drag = "over", !.offers[id].entered = TRUE]
    /\ obs' = Observe("data_device_handle_enter", wl, wl)
    /\ UNCHANGED <<wl, vo_opts, opts, comp, p, ra, pc>>

\* the drag leaves the surface, or ends after the drop
data_device_handle_leave ==
    /\ pc = "idle"
    /\ sys.drag # "none"
    /\ LET r == data_device_handle_leave_fn(wl, sys)
       IN wl' = r.wl /\ sys' = [r.sys EXCEPT !.drag = "none"]
    /\ last' = Op("data_device_handle_leave")
    /\ obs' = Observe("data_device_handle_leave", wl, wl')
    /\ UNCHANGED <<vo_opts, opts, comp, p, ra, pc>>

\* the drag moves over the surface; wl_data_offer_accept on a NULL offer
\* dereferences it
data_device_handle_motion ==
    /\ pc = "idle"
    /\ sys.drag = "over"
    /\ pc' = IF wl.dnd_offer = 0 THEN "crashed" ELSE pc
    /\ last' = Used("data_device_handle_motion", wl.dnd_offer,
                    wl.dnd_mime_type)
    /\ obs' = Observe("data_device_handle_motion", wl, wl)
    /\ UNCHANGED <<wl, vo_opts, opts, comp, p, ra, sys>>

\* the user drops what is dragged over the surface; wl_data_offer_receive
\* on a NULL offer dereferences it
data_device_handle_drop(piped) ==
    /\ pc = "idle"
    /\ sys.drag = "over"
    /\ IF piped /\ wl.dnd_offer = 0
       THEN pc' = "crashed" /\ wl' = wl /\ sys' = sys
       ELSE LET r == data_device_handle_drop_fn(wl, sys, piped)
            IN pc' = pc /\ wl' = r.wl /\ sys' = [r.sys EXCEPT !.drag = "dropped"]
    /\ last' = IF piped
               THEN Used("data_device_handle_drop", wl.dnd_offer,
                         wl.dnd_mime_type)
               ELSE Op("data_device_handle_drop")
    /\ obs' = Observe("data_device_handle_drop", wl, wl')
    /\ UNCHANGED <<vo_opts, opts, comp, p, ra>>

\* the selection (clipboard) changes
data_device_handle_selection ==
    /\ pc = "idle"
    /\ LET r == data_device_handle_selection_fn(wl, sys)
       IN wl' = r.wl /\ sys' = r.sys
    /\ last' = Op("data_device_handle_selection")
    /\ obs' = Observe("data_device_handle_selection", wl, wl')
    /\ UNCHANGED <<vo_opts, opts, comp, p, ra, pc>>

\* the source writes a byte of the payload into a pipe it was given
dnd_source_write(fd) ==
    /\ pc = "idle"
    /\ fd \in DOMAIN sys.pipes
    /\ sys.pipes[fd].mime_type # "NULL"
    /\ sys.pipes[fd].ropen /\ ~sys.pipes[fd].weof
    /\ sys.pipes[fd].written < MaxBytes
    /\ sys' = [sys EXCEPT !.pipes[fd].written = @ + 1]
    /\ last' = Op("dnd_source_write")
    /\ obs' = Observe("dnd_source_write", wl, wl)
    /\ UNCHANGED <<wl, vo_opts, opts, comp, p, ra, pc>>

\* the source (or the compositor) closes the last write end of a pipe
dnd_source_close(fd) ==
    /\ pc = "idle"
    /\ fd \in DOMAIN sys.pipes
    /\ sys.pipes[fd].ropen /\ ~sys.pipes[fd].weof
    /\ sys' = [sys EXCEPT !.pipes[fd].weof = TRUE]
    /\ last' = Op("dnd_source_close")
    /\ obs' = Observe("dnd_source_close", wl, wl)
    /\ UNCHANGED <<wl, vo_opts, opts, comp, p, ra, pc>>

vo_wayland_check_visible ==
    /\ pc = "idle"
    /\ wl' = check_visible_wl(wl)
    /\ last' = Op("vo_wayland_check_visible")
    /\ obs' = Observe("vo_wayland_check_visible", wl, wl')
    /\ UNCHANGED <<vo_opts, opts, comp, p, ra, sys, pc>>

\* vo_wayland_wait_frame() starts polling
wait_frame_enter ==
    /\ pc = "idle"
    /\ pc' = "wait_frame"
    /\ last' = [Op("wait_frame_enter") EXCEPT
                    !.args = <<wait_frame_vblank_time(wl)>>]
    /\ obs' = Observe("wait_frame_enter", wl, wl)
    /\ UNCHANGED <<wl, vo_opts, opts, comp, p, ra, sys>>

\* the compositor names the presentation clock
pres_set_clockid(monotonic) ==
    /\ wl.presentation
    /\ wl' = pres_set_clockid_wl(wl, monotonic)
    /\ last' = Op("pres_set_clockid")
    /\ obs' = Observe("pres_set_clockid", wl, wl')
    /\ UNCHANGED <<vo_opts, opts, comp, p, ra, sys, pc>>

\* the compositor reports the presentation of a frame
feedback_presented(refresh_nsec, vsync_duration) ==
    /\ wl.presentation
    /\ wl' = feedback_presented_wl(wl, refresh_nsec, vsync_duration)
    /\ last' = Op("feedback_presented")
    /\ obs' = Observe("feedback_presented", wl, wl')
    /\ UNCHANGED <<vo_opts, opts, comp, p, ra, sys, pc>>

\* the compositor describes a mode of the output
output_handle_mode(current, refresh) ==
    /\ wl' = output_handle_mode_wl(wl, current, refresh)
    /\ last' = Op("output_handle_mode")
    /\ obs' = Observe("output_handle_mode", wl, wl')
    /\ UNCHANGED <<vo_opts, opts, comp, p, ra, sys, pc>>

\* a touch point goes down at (x_w, y_w), in 1/256 pixels; edge_pixels is
\* the wayland-edge-pixels-touch option; the handler asks for a resize at
\* the edge check_for_resize selects and for a move if it selects none
touch_handle_down(x_w, y_w, edge_pixels) ==
    /\ pc = "idle"
    /\ LET r == touch_handle_down_fn(wl, vo_opts, x_w, y_w, edge_pixels)
       IN last' = [Op("touch_handle_down")
                      EXCEPT !.args = <<x_w, y_w, edge_pixels>>,
                             !.ret = r.ret,
                             !.edge = r.edge,
                             !.request = r.request]
    /\ obs' = Observe("touch_handle_down", wl, wl)
    /\ UNCHANGED <<wl, vo_opts, opts, comp, p, ra, sys, pc>>

\* a pointer button changes state while the pointer is at (x_w, y_w);
\* edge_pixels is the wayland-edge-pixels-pointer option
pointer_handle_button(left, down, dragging, x_w, y_w, edge_pixels) ==
    /\ pc = "idle"
    /\ LET r == pointer_handle_button_fn(wl, vo_opts, left, down, dragging,
                                         x_w, y_w, edge_pixels)
       IN last' = [Op("pointer_handle_button")
                      EXCEPT !.args = <<x_w, y_w, edge_pixels>>,
                             !.edge = r.edge,
                             !.request = r.request]
    /\ obs' = Observe("pointer_handle_button", wl, wl)
    /\ UNCHANGED <<wl, vo_opts, opts, comp, p, ra, sys, pc>>

\* the compositor places an output
output_handle_geometry(o, x, y) ==
    /\ o \in 1 .. Len(wl.outputs)
    /\ wl' = output_handle_geometry_wl(wl, o, x, y)
    /\ last' = Op("output_handle_geometry")
    /\ obs' = Observe("output_handle_geometry", wl, wl')
    /\ UNCHANGED <<vo_opts, opts, comp, p, ra, sys, pc>>

\* the compositor describes a mode of one of the outputs
output_handle_mode_of(o, current, width, height, refresh) ==
    /\ o \in 1 .. Len(wl.outputs)
    /\ wl' = output_handle_mode_fn(wl, o, current, width, height, refresh)
    /\ last' = Op("output_handle_mode")
    /\ obs' = IF current
              THEN [Observe("output_handle_mode", wl, wl')
                       EXCEPT !.modes[o] = <<width, height>>]
              ELSE Observe("output_handle_mode", wl, wl')
    /\ UNCHANGED <<vo_opts, opts, comp, p, ra, sys, pc>>

output_handle_scale(o, factor) ==
    /\ o \in 1 .. Len(wl.outputs)
    /\ wl' = output_handle_scale_wl(wl, o, factor)
    /\ last' = Op("output_handle_scale")
    /\ obs' = Observe("output_handle_scale", wl, wl')
    /\ UNCHANGED <<vo_opts, opts, comp, p, ra, sys, pc>>

\* the compositor ends a description of an output; dwidth, dheight are
\* what vo_calc_window_geometry gives for the screen of the output
output_handle_done(o, dwidth, dheight) ==
    /\ pc \notin {"uninit", "crashed"}
    /\ o \in 1 .. Len(wl.outputs)
    /\ wl.outputs[o].geometry.x1 + wl.outputs[o].geometry.x0 <= MaxCoord
    /\ wl.outputs[o].geometry.y1 + wl.outputs[o].geometry.y0 <= MaxCoord
    /\ wl' = output_handle_done_fn(wl, vo_opts, o, dwidth, dheight)
    /\ last' = [Op("output_handle_done") EXCEPT !.args = <<o, dwidth, dheight>>]
    /\ obs' = Observe("output_handle_done", wl, wl')
    /\ UNCHANGED <<vo_opts, opts, comp, p, ra, sys, pc>>

\* the surface enters an output
surface_handle_enter(o, dwidth, dheight) ==
    /\ pc \notin {"uninit", "crashed"}
    /\ o \in 1 .. Len(wl.outputs)
    /\ wl' = surface_handle_enter_fn(wl, vo_opts, o, dwidth, dheight)
    /\ pc' = IF wl.current_output # 0 /\ wl.outputs[o].freed
             THEN "crashed" ELSE pc
    /\ last' = [Op("surface_handle_enter") EXCEPT !.args = <<o, dwidth, dheight>>]
    /\ obs' = Observe("surface_handle_enter", wl, wl')
    /\ UNCHANGED <<vo_opts, opts, comp, p, ra, sys>>

\* the compositor withdraws the global of an output
registry_handle_remove(o) ==
    /\ pc \notin {"uninit", "crashed"}
    /\ o \in 1 .. Len(wl.outputs)
    /\ ~wl.outputs[o].freed
    /\ wl' = registry_handle_remove_wl(wl, o)
    /\ last' = [Op("registry_handle_remove") EXCEPT !.args = <<o>>]
    /\ obs' = Observe("registry_handle_remove", wl, wl')
    /\ UNCHANGED <<vo_opts, opts, comp, p, ra, sys, pc>>

\* the compositor announces an output while the VO runs
registry_global_output(ver) ==
    /\ pc \notin {"uninit", "crashed"}
    /\ Len(wl.outputs) < MaxOutputs
    /\ wl' = registry_handle_add(wl, "wl_output", ver)
    /\ last' = [Op("registry_handle_add") EXCEPT !.args = <<"wl_output", ver>>]
    /\ obs' = Observe("registry_handle_add", wl, wl')
    /\ UNCHANGED <<vo_opts, opts, comp, p, ra, sys, pc>>

\* a call reads *wl->current_output after remove_output freed it and the
\* read faults; where it does not fault the call goes on with what the
\* memory held
current_output_fault(name) ==
    /\ pc \notin {"uninit", "crashed"}
    /\ wl.current_output # 0
    /\ wl.outputs[wl.current_output].freed
    /\ pc' = "crashed"
    /\ last' = Op(name)
    /\ obs' = Observe(name, wl, wl)
    /\ UNCHANGED <<wl, vo_opts, opts, comp, p, ra, sys>>

\* vo_wayland_wait_frame() leaves the loop (callback fired or deadline
\* elapsed) and returns
wait_frame_return ==
    /\ pc = "wait_frame"
    /\ pc' = "idle"
    /\ wl' = wait_frame_end(wl)
    /\ last' = Op("wait_frame_return")
    /\ obs' = Observe("wait_frame_return", wl, wl')
    /\ UNCHANGED <<vo_opts, opts, comp, p, ra, sys>>

\* vo_wayland_wait_frame() leaves the loop (callback fired or deadline
\* elapsed); without presentation sync and with a working connection it goes
\* on to wl_display_roundtrip, otherwise it returns
wait_frame_loop_exit ==
    /\ pc = "wait_frame"
    /\ IF ~wl.use_present /\ ~sys.display_err
       THEN pc' = "roundtrip" /\ wl' = wl
       ELSE pc' = "idle" /\ wl' = wait_frame_end(wl)
    /\ last' = Op("wait_frame_loop_exit")
    /\ obs' = Observe("wait_frame_loop_exit", wl, wl')
    /\ UNCHANGED <<vo_opts, opts, comp, p, ra, sys>>

\* the compositor answers the sync request of wl_display_roundtrip, and
\* vo_wayland_wait_frame() returns
wait_frame_roundtrip_done ==
    /\ pc = "roundtrip"
    /\ ~sys.display_err
    /\ pc' = "idle"
    /\ wl' = wait_frame_end(wl)
    /\ last' = Op("wait_frame_roundtrip_done")
    /\ obs' = Observe("wait_frame_roundtrip_done", wl, wl')
    /\ UNCHANGED <<vo_opts, opts, comp, p, ra, sys>>

\* the connection failed while wl_display_roundtrip was blocked: it returns
\* with the error, and so does vo_wayland_wait_frame()
wait_frame_roundtrip_error ==
    /\ pc = "roundtrip"
    /\ sys.display_err
    /\ pc' = "idle"
    /\ wl' = wait_frame_end(wl)
    /\ last' = Op("wait_frame_roundtrip_error")
    /\ obs' = Observe("wait_frame_roundtrip_error", wl, wl')
    /\ UNCHANGED <<vo_opts, opts, comp, p, ra, sys>>

\* vo_wayland_wait_frame(): one turn of the loop, which runs while the
\* frame callback has not fired
wait_frame_dispatch(readable) ==
    /\ pc = "wait_frame"
    /\ wl.frame_wait
    /\ LET r == wait_frame_dispatch_fn(wl, sys, readable)
       IN /\ wl' = r.wl
          /\ sys' = r.sys
          /\ last' = [Op("wait_frame_dispatch") EXCEPT
                          !.timed_out = r.timed_out, !.woken = r.woken]
    /\ obs' = Observe("wait_frame_dispatch", wl, wl')
    /\ UNCHANGED <<vo_opts, opts, comp, p, ra, pc>>

\* vo_wayland_wait_events() is called: it returns at once when display_fd
\* is -1 and polls otherwise
vo_wayland_wait_events ==
    /\ pc = "idle"
    /\ pc' = IF wl.display_fd = -1 THEN pc ELSE "wait_events"
    /\ last' = Op("vo_wayland_wait_events")
    /\ obs' = Observe("vo_wayland_wait_events", wl, wl)
    /\ UNCHANGED <<wl, vo_opts, opts, comp, p, ra, sys>>

\* the poll of vo_wayland_wait_events() returns and the call ends
wait_events_return(readable) ==
    /\ pc = "wait_events"
    /\ pc' = "idle"
    /\ LET r == vo_wayland_wait_events_fn(wl, sys, readable)
       IN /\ wl' = r.wl
          /\ sys' = r.sys
          /\ last' = [Op("wait_events_return") EXCEPT
                          !.timed_out = r.timed_out, !.woken = r.woken]
    /\ obs' = Observe("wait_events_return", wl, wl')
    /\ UNCHANGED <<vo_opts, opts, comp, p, ra>>

\* another thread of the player calls vo_wayland_wakeup()
vo_wayland_wakeup ==
    /\ pc # "uninit"
    /\ sys.wakeup < MaxWakeups
    /\ sys' = vo_wayland_wakeup_fn(sys)
    /\ last' = Op("vo_wayland_wakeup")
    /\ obs' = Observe("vo_wayland_wakeup", wl, wl)
    /\ UNCHANGED <<wl, vo_opts, opts, comp, p, ra, pc>>

\* the connection to the compositor fails
transport_error ==
    /\ pc # "uninit"
    /\ ~sys.display_err
    /\ sys' = [sys EXCEPT !.display_err = TRUE]
    /\ last' = Op("transport_error")
    /\ obs' = Observe("transport_error", wl, wl)
    /\ UNCHANGED <<wl, vo_opts, opts, comp, p, ra, pc>>

\* draw_frame() of the driver: status and desc are what vaExportSurfaceHandle
\* answers if the frame has to be imported through VA-API (desc is the
\* frame's descriptor on success and any value otherwise)
draw_frame(src, status, desc) ==
    /\ pc = "idle"
    /\ p.reset_count < MaxResetCount
    /\ status # "OPERATION_FAILED" => desc = src
    /\ wl' = check_visible_wl(wl)
    /\ IF ~check_visible_render(wl, opts)
       THEN /\ p' = p
            /\ last' = Op("draw_frame")
       ELSE LET q == draw_frame_alloc(draw_frame_reset(p), ra)
                g == wlbuf_pool_get_entry(q.wlbuf_pool, wl, src, status, desc)
            IN /\ p' = [q EXCEPT !.wlbuf_pool = g.pool]
               /\ last' = [Draw(pool_key(q.wlbuf_pool, src),
                                vo_wayland_supported_format(
                                    wl, src.drm_format, src.modifier), g,
                                pool_exported(q.wlbuf_pool, g.imports,
                                              status, desc),
                                pool_closes(q.wlbuf_pool, g.imports,
                                            status, desc))
                              EXCEPT !.args =
                                  IF g.imports = 1
                                         /\ q.wlbuf_pool.importer = "vaapi"
                                  THEN <<status>> ELSE <<>>]
    /\ obs' = Observe("draw_frame", wl, wl')
    /\ UNCHANGED <<vo_opts, opts, comp, ra, sys, pc>>

\* flip_page() of the driver: commits and enters vo_wayland_wait_frame
flip_page ==
    /\ pc = "idle"
    /\ pc' = IF opts.disable_vsync THEN pc ELSE "wait_frame"
    /\ last' = Op("flip_page")
    /\ obs' = Observe("flip_page", wl, wl)
    /\ UNCHANGED <<wl, vo_opts, opts, comp, p, ra, sys>>

\* control(VOCTRL_RESET) of the driver
control_VOCTRL_RESET ==
    /\ pc = "idle"
    /\ p' = control_reset(p)
    /\ last' = Op("VOCTRL_RESET")
    /\ obs' = Observe("VOCTRL_RESET", wl, wl)
    /\ UNCHANGED <<wl, vo_opts, opts, comp, ra, sys, pc>>

vo_wayland_reconfig(dwidth, dheight) ==
    /\ pc = "idle"
    /\ wl' = vo_wayland_reconfig_fn(wl, vo_opts, opts, dwidth, dheight)
    /\ last' = [Op("vo_wayland_reconfig") EXCEPT !.args = <<dwidth, dheight>>]
    /\ obs' = Observe("vo_wayland_reconfig", wl, wl')
    /\ UNCHANGED <<vo_opts, opts, comp, p, ra, sys, pc>>

\* reconfig() of the driver: the solid buffer, then vo_wayland_reconfig
reconfig(memfd, pool, buffer, dwidth, dheight) ==
    /\ pc = "idle"
    /\ LET r == reconfig_solid_buffer(p, sys, memfd, pool, buffer)
       IN /\ p' = r.p
          /\ sys' = r.sys
          /\ wl' = IF r.ret
                   THEN vo_wayland_reconfig_fn(wl, vo_opts, opts, dwidth,
                                               dheight)
                   ELSE wl
          /\ last' = [Op("reconfig") EXCEPT
                          !.ret = r.ret, !.args = <<memfd, pool, buffer>>]
          /\ obs' = [Observe("reconfig", wl, wl') EXCEPT
                         !.failed = @ \/ ~r.ret]
    /\ UNCHANGED <<vo_opts, opts, comp, ra, pc>>

\* VOCTRL_CHECK_EVENTS: check_dnd_fd, then the pending events; while the
\* reads of check_dnd_fd block, the source writes the rest of its payload
vo_wayland_control_check_events ==
    /\ pc = "idle"
    /\ \E more \in 0 .. MaxBytes :
          /\ wl.dnd_fd # -1 => sys.pipes[wl.dnd_fd].written + more <= MaxBytes
          /\ wl.dnd_fd # -1 /\ sys.pipes[wl.dnd_fd].weof => more = 0
          /\ wl.dnd_fd = -1 => more = 0
          /\ LET r == check_dnd_fd(wl, sys, more)
             IN /\ wl' = control_check_events(r.wl)
                /\ sys' = r.sys
                /\ last' = [Used("VOCTRL_CHECK_EVENTS", r.used, "NULL")
                               EXCEPT !.dropped = r.dropped]
    /\ obs' = Observe("VOCTRL_CHECK_EVENTS", wl, wl')
    /\ UNCHANGED <<vo_opts, opts, comp, p, ra, pc>>

\* the registry announces a global during the first roundtrip of
\* vo_wayland_init, and the listener runs
registry_global(interface, ver) ==
    /\ pc = "preinit"
    /\ Cardinality(sys.globals) < MaxGlobals
    /\ Global(interface, ver) \notin sys.globals
    /\ sys' = [sys EXCEPT !.globals = @ \cup {Global(interface, ver)}]
    /\ wl' = registry_handle_add(wl, interface, ver)
    /\ last' = [Op("registry_handle_add") EXCEPT !.args = <<interface, ver>>]
    /\ UNCHANGED <<vo_opts, opts, comp, p, ra, pc, obs>>

\* the VO is created: vo_wayland_init runs once
vo_wayland_init(display, input, xdg) ==
    /\ pc = "preinit"
    /\ LET r == vo_wayland_init_fn(vo_opts, sys.globals, display, input, xdg)
       IN /\ wl' = r.wl
          /\ vo_opts' = r.vo_opts
          /\ pc' = IF r.ret THEN "idle" ELSE "failed"
          /\ comp' = [comp EXCEPT !.frame_callbacks = IF r.ret THEN 1 ELSE 0]
          /\ last' = [Op("vo_wayland_init") EXCEPT
                          !.ret = r.ret, !.args = <<display, input, xdg>>,
                          !.set_mode = r.wl.requested_decoration]
    /\ UNCHANGED <<opts, p, ra, sys, obs>>

\* the user wrote the border option; m_config_cache_get_next_changed
\* reports the option if the value written differs from the cached one
vo_wayland_control_border(border) ==
    /\ pc = "idle"
    /\ border # vo_opts.border
    /\ LET r == control_opt_border(wl, vo_opts, border)
       IN /\ wl' = r.wl
          /\ vo_opts' = r.vo_opts
    /\ last' = [Op("VOCTRL_VO_OPTS_CHANGED") EXCEPT
                    !.args = <<border>>,
                    !.set_mode = control_opt_border(wl, vo_opts,
                                                    border).set_mode]
    /\ obs' = Observe("VOCTRL_VO_OPTS_CHANGED:border", wl, wl')
    /\ UNCHANGED <<opts, comp, p, ra, sys, pc>>

\* the compositor configures the decoration of the toplevel
configure_decorations(mode) ==
    /\ pc = "idle"
    /\ wl.xdg_toplevel_decoration
    /\ LET r == configure_decorations_fn(wl, vo_opts, mode)
       IN /\ wl' = r.wl
          /\ vo_opts' = r.vo_opts
    /\ last' = [Op("configure_decorations") EXCEPT !.args = <<mode>>]
    /\ obs' = Observe("configure_decorations", wl, wl')
    /\ UNCHANGED <<opts, comp, p, ra, sys, pc>>

\* the player changed the fullscreen option; m_config_cache_get_next_changed
\* copies the new value into vo_opts
vo_wayland_control_fullscreen ==
    /\ pc = "idle"
    /\ vo_opts' = [vo_opts EXCEPT !.fullscreen = ~@]
    /\ wl' = control_opt_fullscreen(wl)
    /\ last' = Op("VOCTRL_VO_OPTS_CHANGED")
    /\ obs' = Observe("VOCTRL_VO_OPTS_CHANGED", wl, wl')
    /\ UNCHANGED <<opts, comp, p, ra, sys, pc>>

vo_wayland_control_maximized ==
    /\ pc = "idle"
    /\ vo_opts' = [vo_opts EXCEPT !.window_maximized = ~@]
    /\ wl' = control_opt_maximized(wl)
    /\ last' = Op("VOCTRL_VO_OPTS_CHANGED")
    /\ obs' = Observe("VOCTRL_VO_OPTS_CHANGED", wl, wl')
    /\ UNCHANGED <<opts, comp, p, ra, sys, pc>>

vo_wayland_control_geometry(dwidth, dheight) ==
    /\ pc = "idle"
    /\ wl' = control_opt_geometry(wl, vo_opts, dwidth, dheight)
    /\ last' = Op("VOCTRL_VO_OPTS_CHANGED")
    /\ obs' = Observe("VOCTRL_VO_OPTS_CHANGED", wl, wl')
    /\ UNCHANGED <<vo_opts, opts, comp, p, ra, sys, pc>>

\* VOCTRL_SET_UNFS_WINDOW_SIZE: the player asks for it once the window is
\* configured; while maximized the call dispatches pending events before
\* it looks at the option again
vo_wayland_control_set_unfs(s0, s1) ==
    /\ pc = "idle"
    /\ wl.current_output # 0
    /\ LET w1 == set_unfs_window_size_begin(wl, s0, s1)
       IN IF vo_opts.fullscreen
          THEN wl' = w1 /\ pc' = pc
          ELSE IF vo_opts.window_maximized
          THEN wl' = w1 /\ pc' = "set_unfs"
          ELSE wl' = set_unfs_window_size_end(w1, vo_opts) /\ pc' = pc
    /\ last' = Op("VOCTRL_SET_UNFS_WINDOW_SIZE")
    /\ obs' = Observe("VOCTRL_SET_UNFS_WINDOW_SIZE", wl, wl')
    /\ UNCHANGED <<vo_opts, opts, comp, p, ra, sys>>

vo_wayland_control_set_unfs_return ==
    /\ pc = "set_unfs"
    /\ pc' = "idle"
    /\ wl' = set_unfs_window_size_end(wl, vo_opts)
    /\ last' = Op("VOCTRL_SET_UNFS_WINDOW_SIZE_return")
    /\ obs' = Observe("VOCTRL_SET_UNFS_WINDOW_SIZE_return", wl, wl')
    /\ UNCHANGED <<vo_opts, opts, comp, p, ra, sys>>

----------------------------------------------------------------------------
(* Specifications *)

\* Frame pacing under every interleaving of frame callbacks, draws and
\* frame waits, with the window events that write the pacing fields; the
\* window has one size, which the pacing fields do not read.
Next ==
    \/ frame_callback
    \/ vo_wayland_check_visible
    \/ wait_frame_enter
    \/ wait_frame_return
    \/ \E states \in SUBSET {"ACTIVATED"} :
          handle_toplevel_config(1, 1, states, 0)
    \/ vo_wayland_reconfig(1, 1)
    \/ vo_wayland_control_check_events

Spec == Init /\ [][Next]_vars

\* The window's size and state under the compositor's configure events and
\* the player's calls; the window is never activated, and the video is one
\* line high.
NextWindow ==
    \/ \E width \in Dims, height \in Dims,
          states \in SUBSET {"FULLSCREEN", "MAXIMIZED"} \cup {{"TILED_LEFT"}},
          fp \in {0, 1} :
          handle_toplevel_config(width, height, states, fp)
    \/ \E dwidth \in Sizes : vo_wayland_reconfig(dwidth, 1)
    \/ vo_wayland_control_check_events
    \/ vo_wayland_control_fullscreen
    \/ vo_wayland_control_maximized

SpecWindow == Init /\ [][NextWindow]_vars

\* The sizes of the window: video sizes with and without common divisors
\* and configure events of every size.
NextAspect ==
    \/ \E width \in 0 .. MaxAspect, height \in {0, 1},
          states \in {{}, {"FULLSCREEN"}}, fp \in {0, 1} :
          handle_toplevel_config(width, height, states, fp)
    \/ \E d \in VideoSizes : vo_wayland_reconfig(d[1], d[2])

SpecAspect == InitWindow /\ [][NextAspect]_vars

\* The deadline of the frame wait and what it is computed from.
NextDeadline ==
    \/ \E monotonic \in BOOLEAN : pres_set_clockid(monotonic)
    \/ \E refresh_nsec \in RefreshNsecs, vsync_duration \in VsyncDurations :
          feedback_presented(refresh_nsec, vsync_duration)
    \/ \E current \in BOOLEAN, refresh \in Refreshes :
          output_handle_mode(current, refresh)
    \/ vo_wayland_check_visible
    \/ wait_frame_enter
    \/ wait_frame_return
    \/ frame_callback

SpecDeadline == InitDeadline /\ [][NextDeadline]_vars

\* The frame wait step by step: the poll loop, its end, and the roundtrip
\* that follows it without presentation sync.
NextWait ==
    \/ \E monotonic \in BOOLEAN : pres_set_clockid(monotonic)
    \/ vo_wayland_check_visible
    \/ wait_frame_enter
    \/ \E readable \in BOOLEAN : wait_frame_dispatch(readable)
    \/ wait_frame_loop_exit
    \/ wait_frame_roundtrip_done
    \/ wait_frame_roundtrip_error
    \/ frame_callback
    \/ transport_error

\* the clock advances, so the loop ends; a roundtrip on a failed connection
\* returns; whether the compositor answers a roundtrip is up to it
SpecWait ==
    /\ InitDeadline
    /\ [][NextWait]_vars
    /\ WF_vars(wait_frame_loop_exit)
    /\ WF_vars(wait_frame_roundtrip_error)

\* The registry: globals of every interface in every version.
NextRegistry ==
    \E interface \in Interfaces, ver \in 1 .. MaxVer :
        registry_global(interface, ver)

SpecRegistry == InitRegistry /\ [][NextRegistry]_vars

\* The driver's reconfig with allocations that fail or succeed, between
\* the player's event checks and fullscreen changes.
NextReconfig ==
    \/ \E memfd, pool, buffer \in BOOLEAN, dwidth \in Sizes :
          reconfig(memfd, pool, buffer, dwidth, 1)
    \/ vo_wayland_control_check_events
    \/ vo_wayland_control_fullscreen

SpecReconfig == Init /\ [][NextReconfig]_vars

\* The decoration: the user's border changes, the compositor's decoration
\* events and the toplevel configure events between them.
NextDecoration ==
    \/ \E border \in BOOLEAN : vo_wayland_control_border(border)
    \/ \E mode \in {"CLIENT_SIDE", "SERVER_SIDE"} : configure_decorations(mode)
    \/ \E width \in {0, 1}, states \in SUBSET {"FULLSCREEN", "ACTIVATED"} :
          handle_toplevel_config(width, width, states, 0)
    \/ vo_wayland_reconfig(1, 1)

SpecDecoration == Init /\ [][NextDecoration]_vars

\* Two outputs, the second of which the compositor places, sizes and
\* scales, and a window that moves between them.
InitOutput ==
    Start(vo_wayland_init_fn(DefaultVoOpts,
                             InitGlobals \cup {Global("wl_output", 2),
                                               Global("wl_output", 4)},
                             TRUE, TRUE, TRUE).wl,
          DefaultVoOpts, [VADisplay |-> TRUE])

NextOutput ==
    \/ \E x \in {0, 1} : output_handle_geometry(2, x, 0)
    \/ \E current \in BOOLEAN : output_handle_mode_of(2, current, 1, 1, 60000)
    \/ \E factor \in {0, 2} : output_handle_scale(2, factor)
    \/ \E o \in {1, 2}, dwidth \in Sizes : output_handle_done(o, dwidth, 1)
    \/ \E o \in {1, 2}, dwidth \in Sizes : surface_handle_enter(o, dwidth, 1)
    \/ handle_toplevel_config(MaxDim, MaxDim, {}, 0)
    \/ vo_wayland_reconfig(1, 1)
    \/ vo_wayland_control_check_events

SpecOutput == InitOutput /\ [][NextOutput]_vars

\* positions of a touch point, in 1/256 pixels: every half pixel from one
\* pixel left of and above the window to MaxPos
Positions == {k * 128 : k \in -2 .. 2 * MaxPos}

\* Touch points on windows of several sizes and states.
NextResize ==
    \/ \E width \in {MaxDim, MaxPos},
          states \in {{}, {"FULLSCREEN"}, {"MAXIMIZED"}} :
          handle_toplevel_config(width, width, states, 0)
    \/ vo_wayland_reconfig(1, 1)
    \/ \E x_w \in Positions, y_w \in Positions, edge_pixels \in 0 .. MaxEdge :
          touch_handle_down(x_w, y_w, edge_pixels)

SpecResize == Init /\ [][NextResize]_vars

\* with and without a decoration manager, and so with and without a
\* decoration object of the toplevel
InitInput ==
    \E g \in {InitGlobals,
               InitGlobals \ {Global("zxdg_decoration_manager_v1", 1)}} :
        Start(vo_wayland_init_fn(DefaultVoOpts, g, TRUE, TRUE, TRUE).wl,
              DefaultVoOpts, [VADisplay |-> TRUE])

\* Pointer buttons and touch points on a window in every state.
NextInput ==
    \/ \E states \in {{}, {"FULLSCREEN"}, {"MAXIMIZED"}} :
          handle_toplevel_config(MaxDim, MaxDim, states, 0)
    \/ vo_wayland_reconfig(1, 1)
    \/ \E x_w \in {0, 256}, edge_pixels \in {0, 1} :
          touch_handle_down(x_w, x_w, edge_pixels)
    \/ \E left \in BOOLEAN, down \in BOOLEAN, dragging \in BOOLEAN,
          x_w \in {0, 256}, edge_pixels \in {0, 1} :
          pointer_handle_button(left, down, dragging, x_w, x_w, edge_pixels)

SpecInput == InitInput /\ [][NextInput]_vars

\* The format tables of the compositor, from the first one to the end of
\* the VO.
NextMap ==
    \/ \E format \in {1, 2}, mapped \in BOOLEAN :
          format_table(<<<<format, 0>>>>, mapped)
    \/ \E format \in 1 .. MaxFormat : dmabuf_format(format)
    \/ \E states \in {{}, {"FULLSCREEN"}} :
          handle_toplevel_config(MaxDim, MaxDim, states, 0)
    \/ vo_wayland_reconfig(1, 1)
    \/ vo_wayland_uninit

SpecMap == Init /\ [][NextMap]_vars

\* Outputs that come and go under a window.
NextRemove ==
    \/ \E o \in 1 .. MaxOutputs : registry_handle_remove(o)
    \/ registry_global_output(2)
    \/ \E o \in 1 .. MaxOutputs : surface_handle_enter(o, 1, 1)
    \/ \E o \in 1 .. MaxOutputs : output_handle_done(o, 1, 1)
    \/ vo_wayland_reconfig(1, 1)
    \/ handle_toplevel_config(MaxDim, MaxDim, {}, 0)
    \/ vo_wayland_control_check_events
    \/ \E name \in CurrentOutputReaders : current_output_fault(name)

SpecRemove == Init /\ [][NextRemove]_vars

\* Keymaps that compile and that do not, until the end of the VO.
NextKeymap ==
    \/ \E format_ok \in BOOLEAN, mapped \in BOOLEAN, compiled \in BOOLEAN,
          state_ok \in BOOLEAN :
          keyboard_handle_keymap(format_ok, mapped, compiled, state_ok)
    \/ \E states \in {{}, {"ACTIVATED"}} :
          handle_toplevel_config(MaxDim, MaxDim, states, 0)
    \/ vo_wayland_reconfig(1, 1)
    \/ vo_wayland_uninit

SpecKeymap == Init /\ [][NextKeymap]_vars

\* Activation and keyboard focus with the configure events.
NextFocus ==
    \/ \E width \in Dims, height \in Dims,
          states \in SUBSET {"ACTIVATED"},
          fp \in {0, 1} :
          handle_toplevel_config(width, height, states, fp)
    \/ keyboard_handle_enter
    \/ keyboard_handle_leave
    \/ \E dwidth \in Sizes : vo_wayland_reconfig(dwidth, 1)
    \/ vo_wayland_control_check_events

SpecFocus == InitWindow /\ [][NextFocus]_vars

\* The driver's draw path: frames of an announced format drawn and
\* flipped, buffers released and the pool reset, under the frame pacing.
NextPool ==
    \/ \E src \in AnnouncedFrames, status \in VAStatus, desc \in Frames :
          draw_frame(src, status, desc)
    \/ flip_page
    \/ wait_frame_return
    \/ frame_callback
    \/ wlbuf_pool_buffer_release
    \/ control_VOCTRL_RESET

SpecPool == InitPool /\ [][NextPool]_vars

\* The import of frames of every format and modifier against what the
\* compositor announces; one surface is drawn again and again.
NextImport ==
    \/ \E src \in OneSurfaceFrames, status \in VAStatus, desc \in Frames :
          draw_frame(src, status, desc)
    \/ control_VOCTRL_RESET
    \/ \E format \in 1 .. MaxFormat : dmabuf_format(format)
    \/ \E mapped \in BOOLEAN : format_table(<<<<1, 0>>>>, mapped)

SpecImport == InitImport /\ [][NextImport]_vars

\* The event loop: the waits for events and for the frame callback, the
\* wakeups of other threads and the failure of the connection.
NextLoop ==
    \/ vo_wayland_wait_events
    \/ \E readable \in BOOLEAN : wait_events_return(readable)
    \/ vo_wayland_wakeup
    \/ transport_error
    \/ vo_wayland_check_visible
    \/ wait_frame_enter
    \/ \E readable \in BOOLEAN : wait_frame_dispatch(readable)
    \/ wait_frame_return
    \/ frame_callback

SpecLoop == Init /\ [][NextLoop]_vars

\* The event loop up to the teardown of the window state.
NextTeardown ==
    \/ vo_wayland_wait_events
    \/ \E readable \in BOOLEAN : wait_events_return(readable)
    \/ vo_wayland_wakeup
    \/ transport_error
    \/ vo_wayland_check_visible
    \/ wait_frame_enter
    \/ \E readable \in BOOLEAN : wait_frame_dispatch(readable)
    \/ wait_frame_return
    \/ frame_callback
    \/ vo_wayland_uninit

SpecTeardown == Init /\ [][NextTeardown]_vars

\* Initialisation against any set of globals, and the option changes and
\* decoration events after it.
NextInit ==
    \/ \E display, input, xdg \in BOOLEAN : vo_wayland_init(display, input, xdg)
    \/ \E border \in BOOLEAN : vo_wayland_control_border(border)
    \/ \E mode \in {"CLIENT_SIDE", "SERVER_SIDE"} : configure_decorations(mode)
    \/ vo_wayland_control_fullscreen

SpecInit == InitPre /\ [][NextInit]_vars

\* Drag and drop: the offers the compositor introduces, the drags over the
\* surface, the selection, the payload pipes and the player's event check.
NextDnd ==
    \/ \E kind \in {"drag", "selection"} : data_device_handle_data_offer(kind)
    \/ \E mime_type \in MimeTypes : data_offer_handle_offer(mime_type)
    \/ \E copy \in BOOLEAN : data_offer_action(copy)
    \/ \E id \in 1 .. MaxOffers : data_device_handle_enter(id)
    \/ data_device_handle_leave
    \/ data_device_handle_motion
    \/ \E piped \in BOOLEAN : data_device_handle_drop(piped)
    \/ data_device_handle_selection
    \/ \E fd \in 1 .. MaxOffers : dnd_source_write(fd)
    \/ \E fd \in 1 .. MaxOffers : dnd_source_close(fd)
    \/ vo_wayland_control_check_events

SpecDnd == Init /\ [][NextDnd]_vars

\* The lifetime of the offer objects: as NextDnd, every source advertising
\* the one type "m30" and every drag negotiated as a copy.
NextDndOffers ==
    \/ \E kind \in {"drag", "selection"} : data_device_handle_data_offer(kind)
    \/ data_offer_handle_offer("m30")
    \/ data_offer_action(TRUE)
    \/ \E id \in 1 .. MaxOffers : data_device_handle_enter(id)
    \/ data_device_handle_leave
    \/ data_device_handle_motion
    \/ \E piped \in BOOLEAN : data_device_handle_drop(piped)
    \/ data_device_handle_selection
    \/ \E fd \in 1 .. MaxOffers : dnd_source_write(fd)
    \/ \E fd \in 1 .. MaxOffers : dnd_source_close(fd)
    \/ vo_wayland_control_check_events

SpecDndOffers == Init /\ [][NextDndOffers]_vars

----------------------------------------------------------------------------
(* Properties *)

NonZero(r) == mp_rect_w(r) # 0 /\ mp_rect_h(r) # 0

\* a vo_wayland_wait_frame call returns with its deadline missed
MissedWait == last'.op = "wait_frame_return" /\ wl.frame_wait

\* C1: at most one frame callback is outstanding at any instant; a step
\* other than the frame_callback listener requests none (a frame wait or
\* vo_wayland_check_visible leaves the outstanding one alone), and the
\* listener replaces the one that fired by exactly one.
C1_OneFrameCallback ==
    /\ comp.frame_callbacks <= 1
    /\ [][/\ comp'.frame_callbacks <= 1
          /\ last'.op # "frame_callback" =>
                 comp'.frame_callbacks = comp.frame_callbacks
          /\ last'.op = "frame_callback" =>
                 comp.frame_callbacks = 1 /\ comp'.frame_callbacks = 1]_vars

\* a frame wait returned after the callback fired during it, and the
\* callback the listener requested is the one outstanding
C1_Witness ==
    /\ last.op = "wait_frame_return"
    /\ ~wl.frame_wait
    /\ comp.frame_callbacks = 1

C3_SingleMissTolerated ==
    [][MissedWait /\ obs.fired /\ ~wl.hidden => ~wl'.hidden]_vars

\* C4: a frame callback that fires while the surface is hidden leaves
\* hidden = FALSE, frame_wait = FALSE and timeout_count = 0.
C4_CallbackClearsMisses ==
    [][last'.op = "frame_callback" /\ wl.hidden =>
           ~wl'.hidden /\ ~wl'.frame_wait /\ wl'.timeout_count = 0]_vars

\* C5: a missed frame wait of a hidden surface leaves it hidden and leaves
\* timeout_count as it was; timeout_count never exceeds 2.
C5_HiddenMissesChangeNothing ==
    /\ wl.timeout_count <= 2
    /\ [][/\ MissedWait /\ wl.hidden =>
                 wl'.hidden /\ wl'.timeout_count = wl.timeout_count
          /\ wl'.timeout_count <= 2]_vars

\* a frame wait was missed after the one that hid the surface
C5_Witness ==
    /\ last.op = "wait_frame_return"
    /\ wl.hidden
    /\ obs.streak = 4

\* a toplevel configure event was handled; its width and height are the
\* ones the listener recorded
Configured == last'.op = "handle_toplevel_config"

WindowedStates ==
    ~is_fullscreen(last'.states) /\ ~is_maximized(last'.states)

\* C6 as stated, for a window whose geometry vo_wayland_reconfig has set: a
\* configure event with width 0 or height 0 and neither the fullscreen nor
\* a maximized or tiled state leaves the geometry as it was, and the
\* geometry has neither zero width nor zero height after it.
C6_ZeroConfigureKeepsGeometry ==
    [][/\ Configured /\ WindowedStates /\ NonZero(wl.geometry)
       /\ wl'.toplevel_width = 0 \/ wl'.toplevel_height = 0
       => wl'.geometry = wl.geometry /\ NonZero(wl'.geometry)]_vars

\* C6, amended: once the geometry is non-zero, a configure event with width
\* 0 or height 0 and neither the fullscreen nor a maximized or tiled state
\* sets the geometry to window_size, the remembered windowed size, which it
\* leaves as it was and which is non-zero, and it marks a resize pending;
\* a geometry that is non-zero is never made zero by any step.
C6_ZeroConfigureRestoresWindowSize ==
    [][/\ /\ Configured /\ WindowedStates /\ NonZero(wl.geometry)
          /\ wl'.toplevel_width = 0 \/ wl'.toplevel_height = 0
          => /\ wl'.geometry = wl.window_size
             /\ wl'.window_size = wl.window_size
             /\ NonZero(wl'.geometry)
             /\ "RESIZE" \in wl'.pending_vo_events
       /\ NonZero(wl.geometry) => NonZero(wl'.geometry)]_vars

\* a configure event without a size and without states left the window,
\* not maximized and smaller than the largest size, at its windowed size
C6_Witness ==
    /\ last.op = "handle_toplevel_config"
    /\ last.states = {}
    /\ wl.toplevel_width = 0
    /\ wl.geometry = wl.window_size
    /\ NonZero(wl.geometry)
    /\ wl.geometry # Rect(0, 0, MaxDim, MaxDim)
    /\ ~vo_opts.window_maximized /\ ~wl.state_change

\* C7: a configure event handled while the geometry has zero width or zero
\* height changes nothing but toplevel_width and toplevel_height: not the
\* geometry, window_size, the options, the focus or the pending events.
C7_ConfigureBeforeGeometry ==
    [][Configured /\ ~NonZero(wl.geometry) =>
           /\ wl' = [wl EXCEPT !.toplevel_width = wl'.toplevel_width,
                               !.toplevel_height = wl'.toplevel_height]
           /\ vo_opts' = vo_opts]_vars

\* an activating configure event with a size was handled before
\* vo_wayland_reconfig set the geometry, with the keyboard in the window
C7_Witness ==
    /\ last.op = "handle_toplevel_config"
    /\ last.states = {"ACTIVATED"}
    /\ ~NonZero(wl.geometry)
    /\ wl.toplevel_width = MaxDim /\ wl.toplevel_height = 1
    /\ wl.has_keyboard_input
    /\ ~wl.activated /\ ~wl.focused

\* the first configure event handled with a non-zero geometry, carrying a
\* width and a height above 0 and the states {ACTIVATED}
FirstActivation ==
    /\ Configured
    /\ obs.configs = 0
    /\ NonZero(wl.geometry)
    /\ wl'.toplevel_width > 0 /\ wl'.toplevel_height > 0
    /\ last'.states = {"ACTIVATED"}

\* C8 as stated: that event leaves the geometry (0, 0, w, h), a resize
\* pending and the window focused.
C8_FirstConfigure ==
    [][FirstActivation =>
           /\ wl'.geometry = Rect(0, 0, wl'.toplevel_width, wl'.toplevel_height)
           /\ "RESIZE" \in wl'.pending_vo_events
           /\ wl'.focused]_vars

\* the aspect lock of the handler leaves the size (width, height) alone
AspectKeeps(w, o, width, height) ==
    \/ ~o.keepaspect
    \/ /\ width % w.reduced_width = 0
       /\ \/ ~o.keepaspect_window
          \/ height = CeilDiv(w.reduced_height * width, w.reduced_width)

\* C8, amended: that event activates the window, focuses it if and only if
\* the keyboard has entered the surface, and leaves a resize pending if it
\* changed the geometry; if no change of the fullscreen or maximized state
\* is under way, (w, h) is not the size of the configure event before it
\* and the aspect lock leaves (w, h) alone, it leaves the geometry
\* (0, 0, w, h), and a resize is pending after it if and only if one was
\* pending before or the geometry changed.
C8_FirstConfigureAmended ==
    [][FirstActivation =>
           /\ wl'.focused = wl.has_keyboard_input
           /\ wl'.activated
           /\ /\ ~vo_opts.fullscreen /\ ~vo_opts.window_maximized
              /\ ~wl.state_change
              /\ \/ wl.toplevel_width # wl'.toplevel_width
                 \/ wl.toplevel_height # wl'.toplevel_height
              /\ AspectKeeps(wl, vo_opts, wl'.toplevel_width,
                             wl'.toplevel_height)
              => /\ wl'.geometry =
                        Rect(0, 0, wl'.toplevel_width, wl'.toplevel_height)
                 /\ "RESIZE" \in wl'.pending_vo_events <=>
                        \/ "RESIZE" \in wl.pending_vo_events
                        \/ wl'.geometry # wl.geometry
           /\ wl'.geometry # wl.geometry =>
                  "RESIZE" \in wl'.pending_vo_events]_vars

\* the first configure event resized, activated and focused the window
C8_Witness ==
    /\ last.op = "handle_toplevel_config"
    /\ last.states = {"ACTIVATED"}
    /\ obs.configs = 1
    /\ wl.focused
    /\ wl.toplevel_width = MaxDim /\ wl.toplevel_height = 1
    /\ wl.geometry = Rect(0, 0, MaxDim, 1)
    /\ wl.window_size = Rect(0, 0, MaxDim, 1)
    /\ wl.vdparams = Rect(0, 0, 1, 1)
    /\ "RESIZE" \in wl.pending_vo_events

OnePerKey(pool) ==
    \A e1, e2 \in pool.entries : e1.key = e2.key => e1 = e2

\* C9: when draw_frame asks the pool for the entry of a frame whose key has
\* a live entry, it gets the buffer of that entry, the importer is not
\* called and no zwp_linux_buffer_params_v1_add request is issued; the pool
\* never holds two entries of one key.
C9_PoolReusesEntry ==
    /\ OnePerKey(p.wlbuf_pool)
    /\ [][/\ OnePerKey(p'.wlbuf_pool)
          /\ last'.op = "draw_frame" =>
                 LET q == draw_frame_alloc(draw_frame_reset(p), ra)
                 IN \A e \in q.wlbuf_pool.entries :
                        e.key = last'.key =>
                            /\ last'.buffer = e.buffer
                            /\ last'.imports = 0
                            /\ last'.adds = 0]_vars

\* a frame was drawn from its live entry while the pool held the entries
\* of two keys
C9_Witness ==
    /\ last.op = "draw_frame"
    /\ last.imports = 0
    /\ last.buffer # 0
    /\ \E e \in p.wlbuf_pool.entries :
          e.key = last.key /\ e.buffer = last.buffer
    /\ Cardinality(p.wlbuf_pool.entries) = 2

\* C10: when the importer is called for a frame whose format and modifier
\* the compositor has not announced, it rejects the frame and issues no
\* zwp_linux_buffer_params_v1_add request.
C10_UnsupportedFormatRejected ==
    [][last'.op = "draw_frame" /\ last'.imports = 1 /\ ~last'.supported =>
           ~last'.imported /\ last'.adds = 0]_vars

\* C11: every descriptor a successful vaExportSurfaceHandle opened for the
\* VA-API importer is closed exactly once by the time the importer returns,
\* whether it added the planes and imported the frame or rejected the
\* frame's format; nothing else is closed after a successful export.
C11_ExportedFdsClosedOnce ==
    [][last'.op = "draw_frame" /\ last'.exported # {} =>
           /\ \A fd \in last'.exported :
                  Cardinality({i \in 1 .. Len(last'.closed) :
                                   last'.closed[i] = fd}) = 1
           /\ \A i \in 1 .. Len(last'.closed) :
                  last'.closed[i] \in last'.exported]_vars

\* the importer rejected the unannounced format of a surface exported with
\* two descriptors and closed both
C11_Witness ==
    /\ last.op = "draw_frame"
    /\ last.imports = 1
    /\ ~last.supported /\ ~last.imported
    /\ last.exported = {1, 2}
    /\ last.closed = <<1, 2>>

\* a draw_frame call that found the surface visible
VisibleDraw == last'.op = "draw_frame" /\ check_visible_render(wl, opts)

\* the draw flushed the pool: no entry older than the draw is left, and the
\* frame drawn was imported anew
PoolFlushed ==
    /\ \A e \in p'.wlbuf_pool.entries : e.key = last'.key
    /\ last'.imports = 1

\* the draw left every entry of the pool in the pool
PoolKept ==
    \A e \in p.wlbuf_pool.entries :
        \E e2 \in p'.wlbuf_pool.entries :
            e2.key = e.key /\ e2.buffer = e.buffer

\* C12: after a VOCTRL_RESET the first and the second draw_frame call that
\* reach the pool (the surface being visible) flush it, and no later draw
\* does until the next VOCTRL_RESET, nor does any draw before the first
\* VOCTRL_RESET; the draws are counted from the last VOCTRL_RESET, so one
\* received between the two draws makes the next two draws flush.
C12_FlushOnTwoDrawsAfterReset ==
    [][/\ VisibleDraw /\ obs'.draws \in {1, 2} => PoolFlushed
       /\ last'.op = "draw_frame" /\ ~(VisibleDraw /\ obs'.draws \in {1, 2})
              => PoolKept]_vars

\* the third draw after a reset found the entry the second draw imported
\* into the flushed pool and kept it next to its own
C12_Witness ==
    /\ last.op = "draw_frame"
    /\ obs.draws = 3
    /\ last.imports = 1
    /\ ~p.want_reset
    /\ Cardinality(p.wlbuf_pool.entries) = 2

\* a wl_data_offer_accept request of data_device_handle_enter, or the
\* wl_data_offer_receive request of data_device_handle_drop, on an offer
Requested ==
    /\ last'.op \in {"data_device_handle_enter", "data_device_handle_drop"}
    /\ last'.used > 0

\* C13: the mime type accepted when the drag enters, and the one requested
\* on the drop, is the type of the highest score among the types the
\* offer's source advertised.
C13_BestTypeAccepted ==
    [][Requested =>
           last'.mime_type = Best(sys.offers[last'.used].types)]_vars

\* C14: when an offer was introduced after another one with no leave event
\* between them and its source advertised its types, the mime type accepted
\* for it when the drag enters is one of its types.
C14_NewOfferReplacesType ==
    [][/\ last'.op = "data_device_handle_enter" /\ last'.used > 0
       /\ obs.offers = 2
       /\ sys.offers[last'.used].types # {}
       => last'.mime_type \in sys.offers[last'.used].types]_vars

\* C15: at most one wl_data_offer object is live; an object that is not the
\* stored offer was destroyed exactly once and the stored one was not
\* destroyed; the offer a wl_data_offer_accept, _receive or _finish request
\* is issued on is the stored, live one.
C15_OneLiveOffer ==
    /\ Cardinality({i \in DOMAIN sys.offers :
                        sys.offers[i].destroys = 0}) <= 1
    /\ \A i \in DOMAIN sys.offers :
           sys.offers[i].destroys = IF i = wl.dnd_offer THEN 0 ELSE 1
    /\ last.used > 0 =>
           /\ last.used = wl.dnd_offer
           /\ sys.offers[last.used].destroys = 0

\* the payload of a drop on the second offer was read and the offer
\* finished, the first offer having been destroyed when the second came
C15_Witness ==
    /\ last.op = "VOCTRL_CHECK_EVENTS"
    /\ last.used = 2
    /\ wl.dnd_offer = 2
    /\ sys.offers[1].destroys = 1
    /\ sys.offers[2].destroys = 0

\* C16: when the payload of a drop is given to the input layer, it is the
\* first time for this drop, the payload holds every byte the source wrote
\* before it closed its end, and it comes with the mime type requested
\* from the offer that was dropped and with the action negotiated for that
\* offer; after it the read end is closed, dnd_fd is -1, and the mime
\* type, the score and the action are reset.
C16_PayloadDeliveredOnce ==
    [][last'.op = "VOCTRL_CHECK_EVENTS" /\ last'.dropped # NoDrop =>
           LET d == last'.dropped
               pipe == sys.pipes[d.fd]
           IN /\ pipe.delivered = 0
              /\ sys'.pipes[d.fd].delivered = 1
              /\ d.bytes = d.total
              /\ d.mime_type = pipe.mime_type
              /\ pipe.action # -1 => d.action = pipe.action
              /\ ~sys'.pipes[d.fd].ropen
              /\ wl'.dnd_fd = -1
              /\ wl'.dnd_mime_type = "NULL"
              /\ wl'.dnd_mime_score = 0
              /\ wl'.dnd_action = -1]_vars

\* a dispatch polls the display descriptor after the connection failed
ErrorSeen ==
    /\ last'.op \in {"wait_events_return", "wait_frame_dispatch"}
    /\ sys.display_err
    /\ wl.display_fd # -1

\* C17: the dispatch that finds the error on the display descriptor gives
\* the input layer one close request and sets display_fd to -1; no other
\* step gives one, so that the input layer is given at most one, whatever
\* vo_wayland_wait_events and vo_wayland_wait_frame calls follow.
C17_TransportErrorReportedOnce ==
    /\ sys.close_requests = 0
    /\ [][/\ ErrorSeen =>
                 /\ sys.close_requests = 0
                 /\ sys'.close_requests = 1
                 /\ wl'.display_fd = -1
          /\ ~ErrorSeen => sys'.close_requests = sys.close_requests]_vars

\* after the error was reported, vo_wayland_wait_frame polled again
C17_Witness ==
    /\ last.op = "wait_frame_dispatch"
    /\ last.timed_out
    /\ sys.display_err
    /\ wl.display_fd = -1
    /\ sys.close_requests = 1

\* C18: the poll of vo_wayland_wait_events does not wait until its timeout
\* when the wakeup pipe holds a byte, written before the poll or during
\* it; bytes leave the pipe only when that poll has returned, in the flush
\* of the loop thread, and vo_wayland_wakeup leaves one in it.
C18_WakeupNotLost ==
    [][/\ last'.op = "wait_events_return" /\ sys.wakeup > 0 =>
              ~last'.timed_out
       /\ sys'.wakeup < sys.wakeup => last'.op = "wait_events_return"
       /\ last'.op = "vo_wayland_wakeup" => sys'.wakeup > 0]_vars

\* the poll returned for a wakeup alone, and the loop thread drained the
\* pipe
C18_Witness ==
    /\ last.op = "wait_events_return"
    /\ ~last.timed_out
    /\ last.woken
    /\ ~sys.display_err
    /\ sys.wakeup = 0

----------------------------------------------------------------------------
(* Initialisation *)

\* the compositor advertises the interface in at least the version
Provided(interface, ver) ==
    \E g \in sys.globals : g.interface = interface /\ g.ver >= ver

\* C19: vo_wayland_init returns false when xdg_wm_base or every output it
\* can bind is missing; when both are there (and the connection, the input
\* context and the xdg surface could be made) it returns true whichever of
\* the decoration manager, idle-inhibit, the data-device manager and
\* presentation-time are missing, and a missing one only leaves its own
\* object unset.
C19_InitNeedsBaseAndOutput ==
    last.op = "vo_wayland_init" /\ last.args # <<>> =>
        /\ (~Provided("xdg_wm_base", 1) \/ ~Provided("wl_output", 2))
               => (~last.ret /\ pc = "failed")
        /\ (Provided("xdg_wm_base", 1) /\ Provided("wl_output", 2)
                /\ last.args = <<TRUE, TRUE, TRUE>>)
               => (last.ret /\ pc = "idle")
        /\ last.ret =>
               /\ wl.xdg_toplevel_decoration
                      = Provided("zxdg_decoration_manager_v1", 1)
               /\ wl.idle_inhibit_manager
                      = Provided("zwp_idle_inhibit_manager_v1", 1)
               /\ wl.dnd_ddev = (Provided("wl_data_device_manager", 3)
                                     /\ Provided("wl_seat", 1))
               /\ wl.present = Provided("wp_presentation", 1)

\* init succeeded with none of the four optional protocols
C19_Witness ==
    /\ last.op = "vo_wayland_init" /\ last.ret
    /\ ~Provided("zxdg_decoration_manager_v1", 1)
    /\ ~Provided("zwp_idle_inhibit_manager_v1", 1)
    /\ ~Provided("wl_data_device_manager", 1)
    /\ ~Provided("wp_presentation", 1)
    /\ ~wl.xdg_toplevel_decoration /\ ~wl.dnd_ddev /\ ~wl.present

\* C20: without the decoration protocol the border option is false once
\* vo_wayland_init has succeeded, and false again after every
\* VOCTRL_VO_OPTS_CHANGED, whatever the user wrote to it.
C20_BorderForcedOff ==
    (pc = "idle" /\ ~Provided("zxdg_decoration_manager_v1", 1))
        => ~vo_opts.border

\* the user wrote border = yes without the decoration protocol
C20_Witness ==
    /\ last.op = "VOCTRL_VO_OPTS_CHANGED" /\ last.args = <<TRUE>>
    /\ ~Provided("zxdg_decoration_manager_v1", 1)
    /\ ~vo_opts.border

----------------------------------------------------------------------------
(* Aspect ratio *)

\* the greatest common divisor, by its definition
Gcd(a, b) ==
    CHOOSE d \in 1 .. a :
        /\ a % d = 0 /\ b % d = 0
        /\ \A e \in 1 .. a : a % e = 0 /\ b % e = 0 => e <= d

\* a configure event with a width and a height, with neither the fullscreen
\* nor a maximized state, other than the previous event's size, handled with
\* a non-zero geometry while both keepaspect options are set
AspectConfigure ==
    /\ Configured /\ WindowedStates /\ NonZero(wl.geometry)
    /\ wl'.toplevel_width > 0 /\ wl'.toplevel_height > 0
    /\ <<wl'.toplevel_width, wl'.toplevel_height>>
           # <<wl.toplevel_width, wl.toplevel_height>>
    /\ vo_opts.keepaspect /\ vo_opts.keepaspect_window

\* the height the aspect ratio gives the width of the configure event
AspectHeight ==
    mp_rect_h(wl'.geometry)
        = CeilDiv(wl.reduced_height * wl'.toplevel_width, wl.reduced_width)

\* set_geometry divided the video size by its greatest common divisor
Reduced ==
    last'.op = "vo_wayland_reconfig" =>
        /\ wl'.gcd = Gcd(last'.args[1], last'.args[2])
        /\ wl'.reduced_width * wl'.gcd = last'.args[1]
        /\ wl'.reduced_height * wl'.gcd = last'.args[2]

\* C21 as stated: every configure event with a size and a windowed state,
\* handled with both keepaspect options set, leaves the height
\* ceil(reduced_height * width / reduced_width).
C21_AspectHeightOnEveryConfigure ==
    [][(AspectConfigure => AspectHeight) /\ Reduced]_vars

\* C21, amended: such a configure event leaves the height
\* ceil(reduced_height * width / reduced_width) of its width when it ends
\* no state change, that is when the window was neither fullscreen nor
\* maximized and no toggle was pending; when it ends one, the height is
\* that of window_size, the remembered windowed size. reduced_width and
\* reduced_height are the video width and height divided by their greatest
\* common divisor.
C21_AspectHeightWithoutStateChange ==
    [][/\ AspectConfigure =>
              IF toplevel_config_state_change(wl, vo_opts, last'.states)
              THEN wl'.geometry = wl.window_size
              ELSE AspectHeight /\ wl'.window_size = wl'.geometry
       /\ Reduced]_vars

\* a 4:3-like video (reduced 2:3 by the divisor 2) was resized to a width
\* the reduced width does not divide
C21_Witness ==
    /\ last.op = "handle_toplevel_config" /\ last.states = {}
    /\ wl.gcd = 2 /\ wl.reduced_width = 2 /\ wl.reduced_height = 3
    /\ wl.toplevel_width = 3
    /\ mp_rect_h(wl.geometry) = 5
    /\ ~wl.state_change

----------------------------------------------------------------------------
(* The deadline of the frame wait *)

\* the candidates for the vblank interval in the order of preference, in
\* microseconds, for the state the wait starts in
Candidates ==
    << IF wl.use_present THEN wl.vsync_duration ELSE 0,
       wl.refresh_interval,
       IF wl.refresh_rate > 0 THEN 1000000000 \div wl.refresh_rate ELSE 0,
       1000000 \div 60 >>

FirstPositive(c) == c[CHOOSE i \in 1 .. Len(c) :
                         c[i] > 0 /\ \A j \in 1 .. i - 1 : c[j] <= 0]

\* C22: the frame wait takes the first positive of the measured vsync
\* duration (with presentation sync in use), the refresh interval the
\* compositor reported, the interval of the output's refresh rate and the
\* interval of 60 Hz, and waits that interval and 5% of it.
C22_DeadlineFromFirstPositive ==
    [][last'.op = "wait_frame_enter" =>
           last'.args = << (105 * FirstPositive(Candidates)) \div 100 >>]_vars

\* a wait started with presentation sync in use and no positive vsync
\* duration: the reported interval of 8333 us was padded to 8749 us
C22_Witness ==
    /\ last.op = "wait_frame_enter"
    /\ wl.use_present /\ wl.vsync_duration <= 0
    /\ wl.refresh_interval = 8333 /\ wl.refresh_rate = 50000
    /\ last.args = <<8749>>

----------------------------------------------------------------------------
(* Termination of the frame wait *)

\* C23: every call of vo_wayland_wait_frame returns, with and without
\* presentation sync, whatever the compositor sends or withholds.
C23_WaitFrameReturns ==
    pc \in {"wait_frame", "roundtrip"} ~> pc = "idle"

----------------------------------------------------------------------------
(* The registry *)

\* the lowest version of an interface the implementation binds
MinVersion(interface) ==
    CASE interface \in {"wl_compositor"} -> 4
      [] interface \in {"wl_data_device_manager"} -> 3
      [] interface \in {"zwp_linux_dmabuf_v1", "wl_output"} -> 2
      [] OTHER -> 1

\* the highest version of an interface the implementation understands
MaxVersion(interface) ==
    CASE interface \in {"wl_compositor", "zwp_linux_dmabuf_v1", "wl_output",
                        "xdg_wm_base"} -> 4
      [] interface \in {"wl_data_device_manager"} -> 3
      [] OTHER -> 1

\* C24: every bind is of an announced global, at a version that is neither
\* above the one advertised nor above the highest the implementation
\* understands, and no global advertised below the lowest version required
\* of its interface is bound.
C24_BoundVersionCapped ==
    \A b \in wl.binds :
        /\ Global(b.interface, b.ver) \in sys.globals
        /\ b.version >= 1
        /\ b.version <= b.ver
        /\ b.version <= MaxVersion(b.interface)
        /\ b.ver >= MinVersion(b.interface)

\* an output advertised in version 5 was bound in version 4 and a dmabuf
\* global advertised in version 1 was not bound
C24_Witness ==
    /\ sys.globals = {Global("wl_output", 5), Global("zwp_linux_dmabuf_v1", 1)}
    /\ wl.binds = {[interface |-> "wl_output", ver |-> 5, version |-> 4]}

----------------------------------------------------------------------------
(* The solid buffer *)

\* the call of reconfig has to allocate and an allocation fails
AllocationFails ==
    /\ last'.op = "reconfig"
    /\ ~p.solid_buffer_pool
    /\ last'.args # <<TRUE, TRUE, TRUE>>

\* C25: a reconfig whose descriptor, pool or buffer allocation fails
\* returns an error and leaves the window as it was, and every reconfig
\* after such a failure returns an error or completes with the solid
\* buffer attached to the main surface.
C25_ReconfigFailsOrAttaches ==
    [][/\ AllocationFails => ~last'.ret /\ wl' = wl /\ vo_opts' = vo_opts
       /\ last'.op = "reconfig" /\ obs.failed /\ last'.ret
              => sys'.attached]_vars

----------------------------------------------------------------------------
(* Decorations *)

\* C26: a decoration configure event sets the border option to whether its
\* mode is server-side, whatever was requested, and clears the outstanding
\* request; toplevel configure events after it issue no decoration-mode
\* request until the user changes the border option again.
C26_AcknowledgedModeNotRetried ==
    [][/\ last'.op = "configure_decorations" =>
              /\ vo_opts'.border = (last'.args[1] = "SERVER_SIDE")
              /\ wl'.requested_decoration = "none"
       /\ Configured /\ obs.acked => last'.set_mode = "none"]_vars

\* after the compositor configured server-side decorations a toplevel
\* configure event was handled with a geometry and issued no request
C26_Witness ==
    /\ last.op = "handle_toplevel_config" /\ last.set_mode = "none"
    /\ obs.acked /\ vo_opts.border
    /\ NonZero(wl.geometry) /\ wl.toplevel_configured
    /\ obs.configs > 0

\* C27: with a decoration object, a change of the border option issues a
\* decoration-mode request for the new value and leaves the option at its
\* previous value; the option changes only with a decoration configure
\* event.
C27_BorderChangesOnConfigure ==
    [][/\ last'.op = "VOCTRL_VO_OPTS_CHANGED" /\ last'.args # <<>>
          /\ wl.xdg_toplevel_decoration =>
              /\ last'.set_mode = IF last'.args[1] THEN "SERVER_SIDE"
                                                   ELSE "CLIENT_SIDE"
              /\ wl'.requested_decoration = last'.set_mode
              /\ vo_opts'.border = vo_opts.border
       /\ wl.xdg_toplevel_decoration /\ vo_opts'.border # vo_opts.border
              => last'.op = "configure_decorations"]_vars

\* the user turned the border off and the option is still on
C27_Witness ==
    /\ last.op = "VOCTRL_VO_OPTS_CHANGED" /\ last.args = <<FALSE>>
    /\ last.set_mode = "CLIENT_SIDE"
    /\ wl.requested_decoration = "CLIENT_SIDE"
    /\ vo_opts.border

----------------------------------------------------------------------------
(* Window states *)

TiledOrMaximized ==
    {"MAXIMIZED", "TILED_TOP", "TILED_LEFT", "TILED_RIGHT", "TILED_BOTTOM"}

\* C28: after a toplevel configure event handled with a non-zero geometry
\* the fullscreen option is whether the event carried FULLSCREEN and the
\* maximized option whether it carried MAXIMIZED or a TILED state; if the
\* event carries none of them and the window was fullscreen or maximized,
\* or a toggle was pending, the geometry becomes window_size, which is left
\* as it was, whatever size the event suggests, and a resize is pending.
C28_ConfigureSetsStates ==
    [][Configured /\ NonZero(wl.geometry) =>
           /\ vo_opts'.fullscreen = ("FULLSCREEN" \in last'.states)
           /\ vo_opts'.window_maximized
                  = (last'.states \cap TiledOrMaximized # {})
           /\ /\ last'.states \cap (TiledOrMaximized \cup {"FULLSCREEN"}) = {}
              /\ vo_opts.fullscreen \/ vo_opts.window_maximized
                     \/ wl.state_change
              => /\ wl'.geometry = wl.window_size
                 /\ wl'.window_size = wl.window_size
                 /\ "RESIZE" \in wl'.pending_vo_events
                 /\ wl'.toplevel_configured
                 /\ ~wl'.state_change]_vars

\* a tiled window went back to windowed: the event suggested the largest
\* size and the window has its smaller windowed size again
C28_Witness ==
    /\ last.op = "handle_toplevel_config" /\ last.states = {}
    /\ wl.toplevel_width = MaxDim /\ wl.toplevel_height = MaxDim
    /\ wl.geometry = wl.window_size
    /\ wl.geometry = Rect(0, 0, 1, 1)
    /\ "RESIZE" \in wl.pending_vo_events
    /\ ~vo_opts.window_maximized /\ ~vo_opts.fullscreen /\ ~wl.state_change

----------------------------------------------------------------------------
(* Outputs *)

\* the surface has a current output and enters output last'.args[1]
Entered == last'.op = "surface_handle_enter" /\ wl.current_output # 0

\* set_geometry has run with the size in the event's arguments
Recomputed ==
    LET dwidth == last'.args[2]
        dheight == last'.args[3]
    IN /\ wl'.vdparams = Rect(0, 0, dwidth \div wl'.scaling,
                                    dheight \div wl'.scaling)
       /\ wl'.gcd = Gcd(dwidth, dheight)
       /\ wl'.reduced_width * wl'.gcd = dwidth
       /\ wl'.reduced_height * wl'.gcd = dheight

\* C29: after the surface enters an output whose scale differs from the
\* scaling or whose geometry differs from that of the output it was on,
\* and after a done event of the current output, a resize is pending; with
\* another output geometry and after done the sizes are those set_geometry
\* computes, with another scale the window is at the scaling of this
\* driver with its sizes carried over.
C29_OutputChangeResizes ==
    [][/\ (Entered /\ wl.outputs[last'.args[1]].scale # wl.scaling)
           => /\ "RESIZE" \in wl'.pending_vo_events
              /\ "DPI" \in wl'.pending_vo_events
              /\ wl'.scaling = 1
              /\ wl'.window_size.x1 * wl'.scaling
                     = wl.window_size.x1 * wl.scaling
       /\ (Entered /\ wl.outputs[last'.args[1]].geometry
                          # wl.outputs[wl.current_output].geometry)
           => "RESIZE" \in wl'.pending_vo_events /\ Recomputed
       /\ (last'.op = "output_handle_done"
              /\ last'.args[1] = wl.current_output)
           => "RESIZE" \in wl'.pending_vo_events /\ Recomputed]_vars

\* the window entered the other output, which lies elsewhere, with no
\* resize pending before and the geometry of the window as it was
C29_Witness ==
    /\ last.op = "surface_handle_enter"
    /\ wl.current_output = 2
    /\ wl.outputs[1].geometry # wl.outputs[2].geometry
    /\ wl.outputs[2].scale = 1
    /\ wl.pending_vo_events = {"RESIZE", "WIN_STATE"}
    /\ wl.toplevel_configured
    /\ wl.vdparams # wl.geometry

----------------------------------------------------------------------------
(* Resize edges *)

\* the whole pixel of the touch point of the last event
TouchPos ==
    LET Whole(f) == IF f >= 0 THEN f \div 256 ELSE -((-f) \div 256)
    IN <<Whole(last.args[1]), Whole(last.args[2])>>

\* the sides of the window that are less than the margin away from the
\* touch point
Crossed ==
    LET margin == last.args[3]
    IN {s \in {"LEFT", "RIGHT", "TOP", "BOTTOM"} :
           CASE s = "LEFT" -> TouchPos[1] < margin
             [] s = "RIGHT" -> mp_rect_w(wl.geometry) - TouchPos[1] < margin
             [] s = "TOP" -> TouchPos[2] < margin
             [] s = "BOTTOM" -> mp_rect_h(wl.geometry) - TouchPos[2] < margin}

\* the sides an edge is made of
EdgeSides(edge) ==
    CASE edge = "TOP_LEFT" -> {"TOP", "LEFT"}
      [] edge = "TOP_RIGHT" -> {"TOP", "RIGHT"}
      [] edge = "BOTTOM_LEFT" -> {"BOTTOM", "LEFT"}
      [] edge = "BOTTOM_RIGHT" -> {"BOTTOM", "RIGHT"}
      [] edge \in {"LEFT", "RIGHT", "TOP", "BOTTOM"} -> {edge}
      [] OTHER -> {}

----------------------------------------------------------------------------
(* Interactive resize and move *)

\* C31: a pointer button or touch event starts an interactive resize only
\* if the toplevel has no decoration object and the window is neither
\* fullscreen nor maximized, and starts neither a resize nor a move while
\* the window is fullscreen or maximized.
C31_ResizeOnlyBareWindowed ==
    last.op \in {"pointer_handle_button", "touch_handle_down"} =>
        /\ (last.request = "resize")
              => (/\ ~wl.xdg_toplevel_decoration
                  /\ ~vo_opts.fullscreen /\ ~vo_opts.window_maximized)
        /\ (vo_opts.fullscreen \/ vo_opts.window_maximized)
              => (last.request = "none")

\* the same for the pointer button alone
PointerResizeOnlyBareWindowed ==
    last.op = "pointer_handle_button" => C31_ResizeOnlyBareWindowed

----------------------------------------------------------------------------
(* The format table *)

\* the mappings that were not unmapped
LiveMaps == {i \in 1 .. Len(sys.mmaps) : sys.mmaps[i] = 0}

\* C32: at most one mapping of a format table is live, no mapping is
\* unmapped twice, and after vo_wayland_uninit no mapping is live.
C32_OneFormatMap ==
    /\ Cardinality(LiveMaps) <= 1
    /\ \A i \in 1 .. Len(sys.mmaps) : sys.mmaps[i] <= 1
    /\ pc = "uninit" => LiveMaps = {}

\* with one format table only
OneTableUnmappedOnce ==
    Len(sys.mmaps) <= 1 => C32_OneFormatMap

----------------------------------------------------------------------------
(* The current output *)

\* the step reads no current output that is off the list or NULL
ReadsListedOutput ==
    /\ (last'.op \in CurrentOutputReaders /\ wl.current_output # 0)
           => ~wl.outputs[wl.current_output].freed
    /\ (last'.op = "surface_handle_enter" /\ wl.current_output # 0)
           => wl'.current_output # 0

\* C33: a call that reads the current output finds an output that is on
\* the output list, and an enter event of the surface leaves a current
\* output where there was one.
C33_CurrentOutputListed == [][ReadsListedOutput]_vars

\* while no output was removed
ListedWhileNoneRemoved ==
    [][(\A i \in 1 .. Len(wl.outputs) : ~wl.outputs[i].freed)
          => ReadsListedOutput]_vars

----------------------------------------------------------------------------
(* The keymap *)

\* the xkb objects wl holds
Stored == {wl.xkb_keymap, wl.xkb_state} \ {0}

\* C34: the keymap and the keyboard state are both absent, or both
\* present with the state made from the stored keymap; no xkb object is
\* released twice, and every object that is no longer stored was released.
C34_KeymapAndStatePaired ==
    /\ (wl.xkb_keymap = 0) <=> (wl.xkb_state = 0)
    /\ wl.xkb_state # 0 => sys.xkb[wl.xkb_state].keymap = wl.xkb_keymap
    /\ \A i \in 1 .. Len(sys.xkb) :
          /\ sys.xkb[i].unrefs <= 1
          /\ (i \notin Stored \/ pc = "uninit") => sys.xkb[i].unrefs = 1

\* a first keymap, whether it compiles or not, leaves a pair or nothing
FirstKeymapPaired ==
    Len(sys.xkb) <= 1 \/ (Len(sys.xkb) = 2 /\ wl.xkb_keymap = 1)
        => C34_KeymapAndStatePaired

----------------------------------------------------------------------------
(* The rectangle of an output *)

\* C35: a done event leaves the rectangle of its output at the position
\* reported last, with the width and height of the current mode reported
\* last.
C35_DoneKeepsModeSize ==
    [][last'.op = "output_handle_done" =>
           LET o == last'.args[1]
               g == wl'.outputs[o].geometry
           IN /\ g.x1 = g.x0 + obs'.modes[o][1]
              /\ g.y1 = g.y0 + obs'.modes[o][2]]_vars

\* the done event that follows a mode event of the same output
DoneAfterModeKeepsModeSize ==
    [][last'.op = "output_handle_done" /\ last.op = "output_handle_mode"
          /\ wl.outputs[last'.args[1]].geometry.x1 = obs.modes[last'.args[1]][1]
          /\ wl.outputs[last'.args[1]].geometry.y1 = obs.modes[last'.args[1]][2]
          => LET o == last'.args[1]
                 g == wl'.outputs[o].geometry
             IN /\ g.x1 = g.x0 + obs'.modes[o][1]
                /\ g.y1 = g.y0 + obs'.modes[o][2]]_vars

----------------------------------------------------------------------------
(* Focus and activation *)

\* the focus is gained, lost, flipped by the step
FocusGained == ~wl.focused /\ wl'.focused
FocusLost == wl.focused /\ ~wl'.focused
FocusFlipped == wl'.focused # wl.focused

\* what the steps do to the focus: it is gained only by a configure event
\* with ACTIVATED reaching a window that was not activated and that the
\* keyboard has entered; a configure event without ACTIVATED takes it; and
\* a step leaves a focus event pending that was not pending before it only
\* if it flips the focus, and every step that flips it leaves one pending
FocusFollowsActivation ==
    /\ FocusGained => /\ Configured
                      /\ is_activated(last'.states)
                      /\ ~wl.activated
                      /\ wl.has_keyboard_input
    /\ Configured /\ wl.focused /\ ~is_activated(last'.states) => FocusLost
    /\ FocusFlipped => "FOCUS" \in wl'.pending_vo_events
    /\ "FOCUS" \in wl'.pending_vo_events \ wl.pending_vo_events
           => FocusFlipped

\* C36: a focused window is activated, and the focus changes only as the
\* activation carried by the configure events changes: gained on a newly
\* activating configure event while the keyboard is on the surface, lost on
\* the first configure event without ACTIVATED, a focus event made pending
\* exactly by the steps that flip the flag.
C36_FocusedImpliesActivated ==
    [][/\ wl.focused => wl.activated
       /\ wl'.focused => wl'.activated
       /\ FocusFollowsActivation]_vars

\* the window lost the focus it had to a configure event without ACTIVATED,
\* with the keyboard still on the surface
C36_Witness ==
    /\ last.op = "handle_toplevel_config"
    /\ ~is_activated(last.states)
    /\ ~wl.focused /\ ~wl.activated
    /\ wl.has_keyboard_input
    /\ "FOCUS" \in wl.pending_vo_events

----------------------------------------------------------------------------
(* The remembered windowed size *)

\* C37: a configure event with the fullscreen, the maximized or a tiled
\* state leaves window_size as it was, and a configure event that changes
\* window_size has none of these states and a width and a height above 0.
C37_ConfigureKeepsWindowSize ==
    [][Configured =>
           /\ ~WindowedStates => wl'.window_size = wl.window_size
           /\ wl'.window_size # wl.window_size =>
                  /\ WindowedStates
                  /\ wl'.toplevel_width > 0
                  /\ wl'.toplevel_height > 0]_vars

\* a fullscreen, maximized or tiled configure event of a new size took the
\* geometry to its size, away from the remembered size
C37_Witness ==
    /\ last.op = "handle_toplevel_config"
    /\ is_fullscreen(last.states) \/ is_maximized(last.states)
    /\ wl.geometry = Rect(0, 0, wl.toplevel_width, wl.toplevel_height)
    /\ NonZero(wl.window_size)
    /\ wl.geometry # wl.window_size

----------------------------------------------------------------------------
(* The descriptor of the display connection *)

\* C38: the descriptor of the display connection is closed at most once,
\* whatever dispatches, with or without a transport error, come before
\* vo_wayland_uninit.
C38_DisplayClosedOnce == sys.display_closes <= 1

\* while no dispatch has met an error on the descriptor, it is closed at
\* most once
ClosedOnceWithoutError == wl.display_fd # -1 => sys.display_closes <= 1

----------------------------------------------------------------------------
(* The descriptor of the dropped payload *)

\* the read ends of the payload pipes that are open
OpenPayloads == {fd \in DOMAIN sys.pipes : sys.pipes[fd].ropen}

\* C39: at most one payload descriptor is open at any time and none is
\* leaked: every open one is the one wl->dnd_fd names, which check_dnd_fd
\* will close, also when a drop arrives before the payload of the drop
\* before it was drained.
C39_OnePayloadOpen ==
    /\ Cardinality(OpenPayloads) <= 1
    /\ \A fd \in OpenPayloads : wl.dnd_fd = fd

\* up to the second drop no descriptor is leaked
FirstPayloadTracked == Len(sys.pipes) <= 1 => C39_OnePayloadOpen

\* check_dnd_fd() finding a hangup and no data closes the descriptor and
\* gives the input layer nothing
HangupClosesWithoutPayload ==
    [][/\ last'.op = "VOCTRL_CHECK_EVENTS"
       /\ wl.dnd_fd # -1
       /\ pipe_revents(sys.pipes[wl.dnd_fd]) = {"POLLHUP"}
       => /\ wl'.dnd_fd = -1
          /\ ~sys'.pipes[wl.dnd_fd].ropen
          /\ last'.dropped = NoDrop]_vars

----------------------------------------------------------------------------
(* A failed export of a VA-API surface *)

\* the draw that came last called the VA-API importer and
\* vaExportSurfaceHandle answered with one of statuses
ExportAnswered(statuses) ==
    /\ last.op = "draw_frame"
    /\ last.args # <<>>
    /\ last.args[1] \in statuses

\* the importer rejected the frame, added no plane and closed nothing, and
\* draw_frame had no buffer to attach
RejectedUntouched ==
    /\ ~last.imported
    /\ last.adds = 0
    /\ last.closed = <<>>
    /\ last.buffer = 0

\* C40: when the export of the VA-API surface fails, as not exportable or
\* with any other error, the importer rejects the frame, adds no plane and
\* closes no descriptor, and draw_frame attaches no buffer.
C40_FailedExportRejected ==
    ExportAnswered({"INVALID_SURFACE", "OPERATION_FAILED"})
        => RejectedUntouched

\* a surface that is not exportable is rejected untouched
NotExportableRejected ==
    ExportAnswered({"INVALID_SURFACE"}) => RejectedUntouched

\* after any failed export the frame is rejected, no plane is added and no
\* buffer is attached
FailedExportNotAttached ==
    ExportAnswered({"INVALID_SURFACE", "OPERATION_FAILED"})
        => ~last.imported /\ last.adds = 0 /\ last.buffer = 0

====
